---- MODULE Spec2Model ----
(***************************************************************************)
(* RestBase: the query compiler (query.ts), the tenant filter (types.ts)   *)
(* and the mutation executor (crud.ts) over one relational table.          *)
(*                                                                         *)
(* SQL text is modelled as a sequence of tokens and the bound values as a  *)
(* sequence, exactly as the code builds them (wp.push / join(" AND ")); a  *)
(* small SQL engine parses the tokens with SQL's precedence (OR below AND) *)
(* and three-valued logic, so that a missing parenthesis, a missing tenant *)
(* conjunct or a wrong placeholder number changes what a statement does.   *)
(***************************************************************************)
EXTENDS Integers, Sequences, FiniteSets, TLC

(* ------------------------------------------------------------------ *)
(* Bounds of the model                                                 *)
(* ------------------------------------------------------------------ *)
MaxPk == 2
MaxVal == 1

Users == {1, 2}
PKs == 1 .. MaxPk
Vals == 0 .. MaxVal
Slots == {1, 2}

(* SQL NULL, JS NaN (Number of a non-numeric string) and JS undefined. *)
NULL == -1
NaN == -2
ABSENT == -3

VARIABLES rows, seq, tbl, nullOpen, pc, req, resp, lock, sel, tables, schema, sync,
          ddl, isSqlite

vars == <<rows, seq, tbl, nullOpen, pc, req, resp, lock, sel, tables, schema, sync,
          ddl, isSqlite>>

(* the definition of the addressed table in the database and cfg.isSqlite *)
dbVars == <<ddl, isSqlite>>

(* the table cache, the tables of the database and the resync in progress *)
catVars == <<tables, schema, sync, dbVars>>

(* ------------------------------------------------------------------ *)
(* Catalog entry of the table (TblMeta) and the configuration          *)
(* ------------------------------------------------------------------ *)
NOPK == ""
ownerField == "owner"

ProductsMeta ==
    [name |-> "products", cols |-> <<"id", "stock", "owner">>,
     numeric |-> {"id", "stock", "owner"}, pk |-> "id", hasOwner |-> TRUE]

(* the elements of a sequence *)
Range(f) == {f[i] : i \in 1 .. Len(f)}

(* CREATE TABLE: the columns in column order, all INTEGER, and the     *)
(* columns of PRIMARY KEY (...) in key order                           *)
Ddl(cols, key) == [cols |-> cols, key |-> key]
ProductsDdl == Ddl(ProductsMeta.cols, <<ProductsMeta.pk>>)

(* position of column c in the key, 0 when it is not a key column *)
KeyIndex(d, c) ==
    IF \E i \in 1 .. Len(d.key) : d.key[i] = c
    THEN CHOOSE i \in 1 .. Len(d.key) : d.key[i] = c ELSE 0

(* PRAGMA table_info: one line per column in column order, pk is the   *)
(* 1-based position of the column in the primary key, 0 for the others *)
tableInfo(d) ==
    [i \in 1 .. Len(d.cols) |->
        [name |-> d.cols[i], type |-> "integer", pk |-> KeyIndex(d, d.cols[i])]]

(* information_schema.columns ORDER BY ORDINAL_POSITION: COLUMN_KEY is *)
(* PRI for every column of the primary key                             *)
columnsInfo(d) ==
    [i \in 1 .. Len(d.cols) |->
        [name |-> d.cols[i], type |-> "integer",
         key |-> IF KeyIndex(d, d.cols[i]) > 0 THEN "PRI" ELSE ""]]

(* the loops of introspect: pk after the lines from i on, pk before them *)
RECURSIVE sqlitePk(_, _, _), mysqlPk(_, _, _)
sqlitePk(info, i, pk) ==
    IF i > Len(info) THEN pk
    ELSE sqlitePk(info, i + 1, IF info[i].pk = 1 THEN info[i].name ELSE pk)
mysqlPk(info, i, pk) ==
    IF i > Len(info) THEN pk
    ELSE mysqlPk(info, i + 1, IF info[i].key = "PRI" THEN info[i].name ELSE pk)

introspect(table, d, sqlite) ==
    [name |-> table, cols |-> d.cols, numeric |-> Range(d.cols),
     pk |-> IF sqlite THEN sqlitePk(tableInfo(d), 1, NOPK)
            ELSE mysqlPk(columnsInfo(d), 1, NOPK),
     hasOwner |-> \E i \in 1 .. Len(d.cols) : d.cols[i] = ownerField]

(* cfg.authTable and the table ensureAuthTable creates *)
authTable == "users"
isAuthTable(name) == name = authTable
UsersMeta ==
    [name |-> authTable, cols |-> <<"id", "username", "password">>,
     numeric |-> {"id"}, pk |-> "id", hasOwner |-> FALSE]

colMapHas(t, k) == \E i \in 1 .. Len(t.cols) : t.cols[i] = k
isNumeric(t, k) == k \in t.numeric

(* ------------------------------------------------------------------ *)
(* SQL text: tokens                                                    *)
(* ------------------------------------------------------------------ *)
Kw(s) == [k |-> "kw", s |-> s, n |-> 0]
Ph(n) == [k |-> "ph", s |-> "$", n |-> n]
q(id) == [k |-> "id", s |-> id, n |-> 0]

(* ownerCond that ignores cfg.ownerNullOpen *)
ownerCond_Strict(paramIdx) == <<q(ownerField), Kw("="), Ph(paramIdx)>>

ownerCond(paramIdx) ==
    LET base == <<q(ownerField), Kw("="), Ph(paramIdx)>>
    IN  IF nullOpen
        THEN <<Kw("(")>> \o base \o <<Kw("OR"), q(ownerField), Kw("IS"), Kw("NULL"), Kw(")")>>
        ELSE base

(* ------------------------------------------------------------------ *)
(* The database engine: WHERE evaluation over tokens                   *)
(* ------------------------------------------------------------------ *)
Tok(toks, p) == IF p >= 1 /\ p <= Len(toks) THEN toks[p] ELSE Kw("<eof>")

Not3(a) == CASE a = "T" -> "F" [] a = "F" -> "T" [] OTHER -> a

And3(a, b) ==
    IF a = "E" \/ b = "E" THEN "E"
    ELSE IF a = "F" \/ b = "F" THEN "F"
    ELSE IF a = "U" \/ b = "U" THEN "U" ELSE "T"

Or3(a, b) ==
    IF a = "E" \/ b = "E" THEN "E"
    ELSE IF a = "T" \/ b = "T" THEN "T"
    ELSE IF a = "U" \/ b = "U" THEN "U" ELSE "F"

IsNullish(v) == v = NULL \/ v = NaN
B3(b) == IF b THEN "T" ELSE "F"

CmpOps == {"=", "!=", ">=", ">", "<=", "<"}

Cmp3(op, a, b) ==
    IF IsNullish(a) \/ IsNullish(b) THEN "U"
    ELSE CASE op = "="  -> B3(a = b)
           [] op = "!=" -> B3(a # b)
           [] op = ">=" -> B3(a >= b)
           [] op = ">"  -> B3(a > b)
           [] op = "<=" -> B3(a <= b)
           [] op = "<"  -> B3(a < b)
           [] OTHER     -> "E"

In3(a, vs) ==
    IF IsNullish(a) THEN "U"
    ELSE IF \E i \in 1 .. Len(vs) : vs[i] = a THEN "T"
    ELSE IF \E i \in 1 .. Len(vs) : IsNullish(vs[i]) THEN "U" ELSE "F"

Bound(vals, t) == t.k = "ph" /\ t.n >= 1 /\ t.n <= Len(vals)
ErrAt(p) == [v |-> "E", p |-> p]

(* "(" $a , $b , ... ")" from position p: the bound values, or an error. *)
RECURSIVE InList(_, _, _)
InList(toks, p, vals) ==
    LET cons(r) == [ok |-> r.ok, vs |-> <<vals[toks[p].n]>> \o r.vs, p |-> r.p]
    IN  IF ~Bound(vals, Tok(toks, p)) THEN [ok |-> FALSE, vs |-> <<>>, p |-> p]
        ELSE IF Tok(toks, p + 1) = Kw(",") THEN cons(InList(toks, p + 2, vals))
        ELSE IF Tok(toks, p + 1) = Kw(")")
        THEN [ok |-> TRUE, vs |-> <<vals[toks[p].n]>>, p |-> p + 2]
        ELSE [ok |-> FALSE, vs |-> <<>>, p |-> p]

RECURSIVE EvalOr(_, _, _, _), EvalAnd(_, _, _, _), EvalPred(_, _, _, _)

(* c LIKE pat: "%" matches any run of atoms *)
RECURSIVE LikeMatch(_, _)
LikeMatch(text, pat) ==
    IF Len(pat) = 0 THEN Len(text) = 0
    ELSE IF pat[1] = "%"
    THEN \E m \in 0 .. Len(text) : LikeMatch(SubSeq(text, m + 1, Len(text)), Tail(pat))
    ELSE Len(text) > 0 /\ text[1] = pat[1] /\ LikeMatch(Tail(text), Tail(pat))

TextOf(c) == IF c \in 0 .. 9 THEN <<<<"0", "1", "2", "3", "4", "5", "6", "7", "8", "9">>[c + 1]>> ELSE <<"?">>
Like3(c, pat) == IF c = NULL THEN "U" ELSE B3(LikeMatch(TextOf(c), pat))

(* The part of a predicate after the column, NOT already consumed. *)
EvalTail(toks, p, vals, c) ==
    LET t == Tok(toks, p)
        in(r) == IF r.ok THEN [v |-> In3(c, r.vs), p |-> r.p] ELSE ErrAt(p)
    IN  IF t = Kw("LIKE")
        THEN IF Bound(vals, Tok(toks, p + 1))
             THEN [v |-> Like3(c, vals[toks[p + 1].n]), p |-> p + 2]
             ELSE ErrAt(p)
        ELSE IF t = Kw("IN") /\ Tok(toks, p + 1) = Kw("(")
        THEN in(InList(toks, p + 2, vals))
        ELSE IF t = Kw("BETWEEN")
        THEN IF Bound(vals, Tok(toks, p + 1)) /\ Tok(toks, p + 2) = Kw("AND")
                /\ Bound(vals, Tok(toks, p + 3))
             THEN [v |-> And3(Cmp3(">=", c, vals[toks[p + 1].n]),
                              Cmp3("<=", c, vals[toks[p + 3].n])),
                   p |-> p + 4]
             ELSE ErrAt(p)
        ELSE ErrAt(p)

Negated(r) == [v |-> Not3(r.v), p |-> r.p]
Conj(l, r) == [v |-> And3(l.v, r.v), p |-> r.p]
Disj(l, r) == [v |-> Or3(l.v, r.v), p |-> r.p]

EvalPred(toks, p, vals, row) ==
    LET t == Tok(toks, p)
        close(r) == IF r.v # "E" /\ Tok(toks, r.p) = Kw(")")
                    THEN [v |-> r.v, p |-> r.p + 1] ELSE ErrAt(p)
        after(c, t1) ==
            IF t1 = Kw("IS")
            THEN IF Tok(toks, p + 2) = Kw("NULL")
                 THEN [v |-> B3(c = NULL), p |-> p + 3]
                 ELSE IF Tok(toks, p + 2) = Kw("NOT") /\ Tok(toks, p + 3) = Kw("NULL")
                 THEN [v |-> B3(c # NULL), p |-> p + 4]
                 ELSE ErrAt(p)
            ELSE IF t1 = Kw("NOT") THEN Negated(EvalTail(toks, p + 2, vals, c))
            ELSE IF t1.k = "kw" /\ t1.s \in CmpOps
            THEN IF Bound(vals, Tok(toks, p + 2))
                 THEN [v |-> Cmp3(t1.s, c, vals[toks[p + 2].n]), p |-> p + 3]
                 ELSE ErrAt(p)
            ELSE EvalTail(toks, p + 1, vals, c)
    IN  IF t = Kw("(") THEN close(EvalOr(toks, p + 1, vals, row))
        ELSE IF t.k # "id" \/ ~colMapHas(tbl, t.s) THEN ErrAt(p)
        ELSE after(row[t.s], Tok(toks, p + 1))

EvalAnd(toks, p, vals, row) ==
    LET more(l) == IF l.v # "E" /\ Tok(toks, l.p) = Kw("AND")
                   THEN Conj(l, EvalAnd(toks, l.p + 1, vals, row))
                   ELSE l
    IN  more(EvalPred(toks, p, vals, row))

EvalOr(toks, p, vals, row) ==
    LET more(l) == IF l.v # "E" /\ Tok(toks, l.p) = Kw("OR")
                   THEN Disj(l, EvalOr(toks, l.p + 1, vals, row))
                   ELSE l
    IN  more(EvalAnd(toks, p, vals, row))

(* [WHERE expr] from position p to the end of the statement. *)
Match(toks, p, vals, row) ==
    LET whole(r) == IF r.v # "E" /\ r.p = Len(toks) + 1 THEN r.v ELSE "E"
    IN  IF p = Len(toks) + 1 THEN "T"
        ELSE IF Tok(toks, p) # Kw("WHERE") THEN "E"
        ELSE whole(EvalOr(toks, p + 1, vals, row))

DummyRow == [id |-> 0, stock |-> 0, owner |-> NULL]
WhereOk(toks, p, vals) == Match(toks, p, vals, DummyRow) # "E"
Matching(db, toks, p, vals) == {r \in db : Match(toks, p, vals, r) = "T"}

(* Position of the first FROM keyword, 0 when there is none. *)
FromAt(sql) ==
    IF \E i \in 1 .. Len(sql) : sql[i] = Kw("FROM")
    THEN CHOOSE i \in 1 .. Len(sql) :
             sql[i] = Kw("FROM") /\ \A m \in 1 .. i - 1 : sql[m] # Kw("FROM")
    ELSE 0

(* SELECT ... FROM t [WHERE ...]: the rows of db the statement matches. *)
DbSelect(db, sql, vals) ==
    LET p == FromAt(sql)
    IN  IF Tok(sql, 1) = Kw("SELECT") /\ p > 1 /\ Tok(sql, p + 1) = q(tbl.name)
           /\ WhereOk(sql, p + 2, vals)
        THEN [err |-> FALSE, rows |-> Matching(db, sql, p + 2, vals)]
        ELSE [err |-> TRUE, rows |-> {}]

(* DELETE FROM t [WHERE ...]: the table after it and the rows removed. *)
DbDelete(db, sql, vals) ==
    IF Tok(sql, 1) = Kw("DELETE") /\ Tok(sql, 2) = Kw("FROM")
       /\ Tok(sql, 3) = q(tbl.name) /\ WhereOk(sql, 4, vals)
    THEN [err |-> FALSE, db |-> db \ Matching(db, sql, 4, vals),
          hit |-> Matching(db, sql, 4, vals)]
    ELSE [err |-> TRUE, db |-> db, hit |-> {}]

(* col = $i {, col = $j} from position p: the assignments. *)
RECURSIVE SetList(_, _, _)
SetList(toks, p, vals) ==
    LET cons(a, r) == [ok |-> r.ok, asg |-> <<a>> \o r.asg, p |-> r.p]
    IN  IF Tok(toks, p).k = "id" /\ colMapHas(tbl, Tok(toks, p).s)
           /\ Tok(toks, p + 1) = Kw("=") /\ Bound(vals, Tok(toks, p + 2))
        THEN IF Tok(toks, p + 3) = Kw(",")
             THEN cons([col |-> toks[p].s, val |-> vals[toks[p + 2].n]],
                       SetList(toks, p + 4, vals))
             ELSE [ok |-> TRUE,
                   asg |-> <<[col |-> toks[p].s, val |-> vals[toks[p + 2].n]]>>,
                   p |-> p + 3]
        ELSE [ok |-> FALSE, asg |-> <<>>, p |-> p]

RECURSIVE Assign(_, _)
Assign(row, asg) ==
    IF Len(asg) = 0 THEN row
    ELSE Assign([row EXCEPT ![asg[1].col] = asg[1].val], Tail(asg))

(* UPDATE t SET ... [WHERE ...]: the table after it and the rows changed. *)
DbUpdate(db, sql, vals) ==
    LET sl == SetList(sql, 4, vals)
    IN  IF Tok(sql, 1) = Kw("UPDATE") /\ Tok(sql, 2) = q(tbl.name)
           /\ Tok(sql, 3) = Kw("SET") /\ sl.ok /\ WhereOk(sql, sl.p, vals)
        THEN LET hit == Matching(db, sql, sl.p, vals)
             IN  [err |-> FALSE,
                  db |-> (db \ hit) \cup {Assign(r, sl.asg) : r \in hit},
                  hit |-> hit]
        ELSE [err |-> TRUE, db |-> db, hit |-> {}]

(* INSERT INTO t (cols) VALUES (vals): the primary key is unique; a row *)
(* without id takes the next AUTOINCREMENT value; stock defaults to 0.  *)
ColVal(cols, vals, c, default) ==
    IF \E i \in 1 .. Len(cols) : cols[i] = c
    THEN vals[CHOOSE i \in 1 .. Len(cols) : cols[i] = c]
    ELSE default

Max(a, b) == IF a >= b THEN a ELSE b

DbInsert(db, sq, cols, vals) ==
    LET given == ColVal(cols, vals, "id", NULL)
        id == IF given = NULL THEN sq + 1 ELSE given
        row == [id |-> id, stock |-> ColVal(cols, vals, "stock", 0),
                owner |-> ColVal(cols, vals, "owner", NULL)]
    IN  IF \E r \in db : r.id = id
        THEN [err |-> TRUE, db |-> db, seq |-> sq, id |-> id]
        ELSE [err |-> FALSE, db |-> db \cup {row}, seq |-> Max(sq, id), id |-> id]

(* ------------------------------------------------------------------ *)
(* The database engine: select list, GROUP BY, ORDER BY, LIMIT         *)
(* ------------------------------------------------------------------ *)
(* The engine resolves a quoted name strictly: a name that is neither  *)
(* a column nor an alias makes the statement fail.  Functions known to *)
(* it are COUNT, MAX, MIN, SUM (aggregates) and ABS (scalar).          *)
Aggregates == {"COUNT", "MAX", "MIN", "SUM"}
Scalars == {"ABS"}

(* first position from p of a keyword in ks, Len(sql) + 1 when none *)
FirstKw(sql, p, ks) ==
    IF \E i \in p .. Len(sql) : sql[i].k = "kw" /\ sql[i].s \in ks
    THEN CHOOSE i \in p .. Len(sql) :
             /\ sql[i].k = "kw" /\ sql[i].s \in ks
             /\ \A m \in p .. i - 1 : ~(sql[m].k = "kw" /\ sql[m].s \in ks)
    ELSE Len(sql) + 1

SelItem(fn, col, alias) == [fn |-> fn, col |-> col, alias |-> alias]
NoItems(p) == [ok |-> FALSE, items |-> <<>>, p |-> p]

(* one item of a select list at position p *)
SelItemAt(toks, p) ==
    LET t == Tok(toks, p)
        named(fn, col, e) ==
            IF Tok(toks, e) = Kw("AS") /\ Tok(toks, e + 1).k = "id"
            THEN [ok |-> TRUE, items |-> <<SelItem(fn, col, toks[e + 1].s)>>, p |-> e + 2]
            ELSE [ok |-> fn = "", items |-> <<SelItem(fn, col, col)>>, p |-> e]
    IN  IF t = Kw("*")
        THEN [ok |-> TRUE,
              items |-> [i \in 1 .. Len(tbl.cols) |-> SelItem("", tbl.cols[i], tbl.cols[i])],
              p |-> p + 1]
        ELSE IF t = Kw("1")
        THEN [ok |-> TRUE, items |-> <<SelItem("lit", "1", "1")>>, p |-> p + 1]
        ELSE IF t.k = "id" THEN named("", t.s, p + 1)
        ELSE IF t.k = "kw" /\ t.s \in Aggregates \cup Scalars /\ Tok(toks, p + 1) = Kw("(")
                /\ (Tok(toks, p + 2).k = "id" \/ (t.s = "COUNT" /\ Tok(toks, p + 2) = Kw("*")))
                /\ Tok(toks, p + 3) = Kw(")")
        THEN named(t.s, toks[p + 2].s, p + 4)
        ELSE NoItems(p)

(* the select list from position p up to position e (the FROM) *)
RECURSIVE SelList(_, _, _)
SelList(toks, p, e) ==
    LET more(a) ==
            IF ~a.ok THEN a
            ELSE IF a.p = e THEN a
            ELSE IF Tok(toks, a.p) = Kw(",")
            THEN LET cons(r) == [ok |-> r.ok, items |-> a.items \o r.items, p |-> r.p]
                 IN  cons(SelList(toks, a.p + 1, e))
            ELSE NoItems(a.p)
    IN  more(SelItemAt(toks, p))

(* "a" {, "b"} from position p *)
RECURSIVE IdList(_, _)
IdList(toks, p) ==
    LET cons(r) == [ok |-> r.ok, ids |-> <<toks[p].s>> \o r.ids, p |-> r.p]
    IN  IF Tok(toks, p).k # "id" THEN [ok |-> FALSE, ids |-> <<>>, p |-> p]
        ELSE IF Tok(toks, p + 1) = Kw(",") THEN cons(IdList(toks, p + 2))
        ELSE [ok |-> TRUE, ids |-> <<toks[p].s>>, p |-> p + 1]

(* "a" ASC|DESC {, "b" ASC|DESC} from position p *)
RECURSIVE OrdList(_, _)
OrdList(toks, p) ==
    LET key == [col |-> toks[p].s, desc |-> toks[p + 1] = Kw("DESC")]
        cons(r) == [ok |-> r.ok, keys |-> <<key>> \o r.keys, p |-> r.p]
    IN  IF Tok(toks, p).k # "id" \/ Tok(toks, p + 1) \notin {Kw("ASC"), Kw("DESC")}
        THEN [ok |-> FALSE, keys |-> <<>>, p |-> p]
        ELSE IF Tok(toks, p + 2) = Kw(",") THEN cons(OrdList(toks, p + 3))
        ELSE [ok |-> TRUE, keys |-> <<key>>, p |-> p + 2]

(* [GROUP BY ...] [ORDER BY ...] [LIMIT n OFFSET m] from position p to *)
(* the end of the statement                                            *)
Clauses(toks, p) ==
    LET lim(g, o) ==
            IF Tok(toks, o.p) = Kw("LIMIT")
            THEN [ok |-> /\ g.ok /\ o.ok
                         /\ Tok(toks, o.p + 1).k = "num" /\ Tok(toks, o.p + 1).n # NaN
                         /\ Tok(toks, o.p + 2) = Kw("OFFSET")
                         /\ Tok(toks, o.p + 3).k = "num" /\ Tok(toks, o.p + 3).n # NaN
                         /\ o.p + 3 = Len(toks),
                  group |-> g.ids, order |-> o.keys,
                  limit |-> Tok(toks, o.p + 1).n, offset |-> Tok(toks, o.p + 3).n]
            ELSE [ok |-> g.ok /\ o.ok /\ o.p = Len(toks) + 1,
                  group |-> g.ids, order |-> o.keys, limit |-> ABSENT, offset |-> ABSENT]
        ord(g) ==
            IF Tok(toks, g.p) = Kw("ORDER") /\ Tok(toks, g.p + 1) = Kw("BY")
            THEN lim(g, OrdList(toks, g.p + 2))
            ELSE lim(g, [ok |-> TRUE, keys |-> <<>>, p |-> g.p])
    IN  IF Tok(toks, p) = Kw("GROUP") /\ Tok(toks, p + 1) = Kw("BY")
        THEN ord(IdList(toks, p + 2))
        ELSE ord([ok |-> TRUE, ids |-> <<>>, p |-> p])

NullRow == [id |-> NULL, stock |-> NULL, owner |-> NULL]
First(rs) == IF rs = {} THEN NullRow ELSE CHOOSE r \in rs : \A o \in rs : r.id <= o.id

RECURSIVE SumOf(_)
SumOf(S) == IF S = {} THEN 0 ELSE LET x == CHOOSE x \in S : TRUE IN x.v + SumOf(S \ {x})

(* the value of a select item over the rows of one group *)
ItemValue(it, rs) ==
    LET args == {[id |-> r.id, v |-> r[it.col]] : r \in {x \in rs : x[it.col] # NULL}}
    IN  CASE it.fn = "" -> First(rs)[it.col]
          [] it.fn = "lit" -> 1
          [] it.fn = "COUNT" -> IF it.col = "*" THEN Cardinality(rs) ELSE Cardinality(args)
          [] it.fn = "MAX" -> IF args = {} THEN NULL
                              ELSE CHOOSE v \in {a.v : a \in args} : \A a \in args : a.v <= v
          [] it.fn = "MIN" -> IF args = {} THEN NULL
                              ELSE CHOOSE v \in {a.v : a \in args} : \A a \in args : a.v >= v
          [] it.fn = "SUM" -> IF args = {} THEN NULL ELSE SumOf(args)
          [] it.fn = "ABS" -> LET v == First(rs)[it.col]
                              IN  IF v = NULL THEN NULL ELSE IF v < 0 THEN 0 - v ELSE v

NamesKnown(items, c) ==
    /\ \A i \in 1 .. Len(items) :
           items[i].fn = "lit" \/ items[i].col = "*" \/ colMapHas(tbl, items[i].col)
    /\ \A i \in 1 .. Len(c.group) : colMapHas(tbl, c.group[i])
    /\ \A i \in 1 .. Len(c.order) :
           \/ colMapHas(tbl, c.order[i].col)
           \/ \E m \in 1 .. Len(items) : items[m].alias = c.order[i].col

(* the groups of the matched rows: one per row, one per distinct key of *)
(* GROUP BY, or a single one for an aggregate without GROUP BY          *)
GroupsOf(hit, items, c) ==
    IF Len(c.group) > 0
    THEN {{r \in hit : \A i \in 1 .. Len(c.group) : r[c.group[i]] = x[c.group[i]]} : x \in hit}
    ELSE IF \E i \in 1 .. Len(items) : items[i].fn \in Aggregates
    THEN {hit}
    ELSE {{r} : r \in hit}

(* an ordering key: the alias of a select item, else a column *)
KeyValue(items, k, rs) ==
    LET v == IF \E m \in 1 .. Len(items) : items[m].alias = k.col
             THEN ItemValue(items[CHOOSE m \in 1 .. Len(items) : items[m].alias = k.col], rs)
             ELSE First(rs)[k.col]
    IN  IF k.desc THEN 0 - v ELSE v

RECURSIVE LexLess(_, _)
LexLess(a, b) ==
    IF Len(a) = 0 THEN FALSE
    ELSE IF a[1] # b[1] THEN a[1] < b[1] ELSE LexLess(Tail(a), Tail(b))

(* the output row of a group, with its ordering key; groups come in the *)
(* order of their first row when the ordering keys tie                  *)
Line(items, c, rs) ==
    [key |-> [i \in 1 .. Len(c.order) |-> KeyValue(items, c.order[i], rs)]
             \o <<First(rs).id>>,
     out |-> [i \in 1 .. Len(items) |->
                 [k |-> items[i].alias, v |-> ItemValue(items[i], rs)]]]

RECURSIVE Sorted(_)
Sorted(S) ==
    IF S = {} THEN <<>>
    ELSE LET m == CHOOSE x \in S : \A y \in S : ~LexLess(y.key, x.key)
         IN  <<m.out>> \o Sorted(S \ {m})

Page(lines, c) ==
    IF c.limit = ABSENT THEN lines
    ELSE LET from == (IF c.offset < 0 THEN 0 ELSE c.offset) + 1
             to == IF c.limit < 0 THEN Len(lines)
                   ELSE IF c.offset + c.limit < Len(lines) THEN c.offset + c.limit
                   ELSE Len(lines)
         IN  SubSeq(lines, from, to)

QueryErr == [err |-> TRUE, data |-> <<>>]

(* SELECT list FROM t [WHERE ...] [GROUP BY ...] [ORDER BY ...] [LIMIT] *)
DbQuery(db, sql, vals) ==
    LET cut == FirstKw(sql, 1, {"GROUP", "ORDER", "LIMIT"})
        run(res, sl, c) ==
            IF res.err \/ ~sl.ok \/ ~c.ok THEN QueryErr
            ELSE IF ~NamesKnown(sl.items, c) THEN QueryErr
            ELSE [err |-> FALSE,
                  data |-> Page(Sorted({Line(sl.items, c, g) :
                                           g \in GroupsOf(res.rows, sl.items, c)}), c)]
    IN  run(DbSelect(db, SubSeq(sql, 1, cut - 1), vals),
            SelList(sql, 2, FromAt(sql)), Clauses(sql, cut))

(* The count statement, over the table or over a grouped subquery: the *)
(* value of total                                                       *)
DbCount(db, sql, vals) ==
    LET head == <<Kw("SELECT"), Kw("COUNT"), Kw("("), Kw("*"), Kw(")"), Kw("AS"), q("total"),
                  Kw("FROM")>>
        sub(res) == [err |-> res.err, total |-> Len(res.data)]
    IN  IF Len(sql) < 9 \/ SubSeq(sql, 1, 8) # head THEN [err |-> TRUE, total |-> 0]
        ELSE IF sql[9] = Kw("(")
        THEN IF SubSeq(sql, Len(sql) - 2, Len(sql)) = <<Kw(")"), Kw("AS"), q("_sub")>>
             THEN sub(DbQuery(db, SubSeq(sql, 10, Len(sql) - 3), vals))
             ELSE [err |-> TRUE, total |-> 0]
        ELSE sub(DbQuery(db, <<Kw("SELECT"), Kw("1")>> \o SubSeq(sql, 8, Len(sql)), vals))

(* ------------------------------------------------------------------ *)
(* JSON values of a request body and strings of a URL                  *)
(* ------------------------------------------------------------------ *)
(* A JSON value: number, string, array, {field, op, value} object,     *)
(* {op, cond} logic group, or undefined.                               *)
JNum(n) == [s |-> "", n |-> n, a |-> <<>>, j |-> "num"]
JStr(s) == [s |-> s, n |-> 0, a |-> <<>>, j |-> "str"]
JArr(a) == [s |-> "", n |-> 0, a |-> a, j |-> "arr"]
JObj(field, op, value) == [s |-> "", n |-> 0, a |-> <<JStr(field), JStr(op), value>>, j |-> "obj"]
JGrp(op, cond) == [s |-> op, n |-> 0, a |-> cond, j |-> "grp"]
JUndef == [s |-> "", n |-> 0, a |-> <<>>, j |-> "undef"]

(* A URL string is a sequence of atoms: the punctuation characters     *)
(* ".", ",", "(", ")" and maximal runs of other characters.            *)
DigitAtoms == <<"0", "1", "2", "3", "4", "5", "6", "7", "8", "9">>
IsDigit(a) == \E i \in 1 .. Len(DigitAtoms) : DigitAtoms[i] = a
DigitVal(a) == (CHOOSE i \in 1 .. Len(DigitAtoms) : DigitAtoms[i] = a) - 1

(* numerals of more than one character that requests carry *)
Numerals ==
    <<[n |-> 10, a |-> "10"], [n |-> 1000, a |-> "1000"], [n |-> 1001, a |-> "1001"],
      [n |-> 2000, a |-> "2000"], [n |-> -5, a |-> "-5"]>>
IsNumeral(a) == \E i \in 1 .. Len(Numerals) : Numerals[i].a = a
NumeralVal(a) == Numerals[CHOOSE i \in 1 .. Len(Numerals) : Numerals[i].a = a].n

(* Number(v) of a URL string: "" is 0, a numeral its value, else NaN. *)
NumberOfStr(v) ==
    IF Len(v) = 0 THEN 0
    ELSE IF Len(v) = 1 /\ IsDigit(v[1]) THEN DigitVal(v[1])
    ELSE IF Len(v) = 1 /\ IsNumeral(v[1]) THEN NumeralVal(v[1]) ELSE NaN

(* Number(v) of a JSON value. *)
NumberOfJson(v) ==
    CASE v.j = "num" -> v.n
      [] v.j = "str" -> NumberOfStr(<<v.s>>)
      [] OTHER -> NaN

(* String(v) of a JSON value, as a URL-style string of atoms. *)
StringOfJson(v) ==
    CASE v.j = "num" -> IF v.n \in 0 .. 9 THEN <<DigitAtoms[v.n + 1]>> ELSE <<"NaN">>
      [] v.j = "str" -> <<v.s>>
      [] v.j = "undef" -> <<"undefined">>
      [] OTHER -> <<"[object]">>

(* ------------------------------------------------------------------ *)
(* query.ts: operators, compiled conditions                            *)
(* ------------------------------------------------------------------ *)
OP(o) ==
    CASE o = "eq" -> "=" [] o = "ne" -> "!=" [] o = "ge" -> ">="
      [] o = "gt" -> ">" [] o = "le" -> "<=" [] o = "lt" -> "<"
      [] OTHER -> ""

ALL_OPS == {"eq", "ne", "ge", "gt", "le", "lt", "is", "nis", "ns", "like", "nlike", "in", "nin"}
(* String.toLowerCase on the atoms the model uses. *)
toLowerCase(a) ==
    CASE a = "EQ" -> "eq" [] a = "NE" -> "ne" [] a = "GE" -> "ge" [] a = "GT" -> "gt"
      [] a = "LE" -> "le" [] a = "LT" -> "lt" [] a = "IS" -> "is" [] a = "NIS" -> "nis"
      [] a = "NS" -> "ns" [] a = "IN" -> "in" [] a = "NIN" -> "nin"
      [] a = "LIKE" -> "like" [] a = "NLIKE" -> "nlike"
      [] a = "BETWEEN" -> "between" [] a = "BT" -> "bt"
      [] a = "AVG" -> "avg" [] a = "MAX" -> "max" [] a = "MIN" -> "min"
      [] a = "COUNT" -> "count" [] a = "SUM" -> "sum" [] a = "ABS" -> "abs"
      [] a = "ID" -> "id" [] a = "STOCK" -> "stock" [] a = "OWNER" -> "owner"
      [] OTHER -> a

(* String.toUpperCase on the atoms the model uses. *)
toUpperCase(a) ==
    CASE a = "avg" -> "AVG" [] a = "max" -> "MAX" [] a = "min" -> "MIN"
      [] a = "count" -> "COUNT" [] a = "sum" -> "SUM" [] a = "abs" -> "ABS"
      [] a = "id" -> "ID" [] a = "stock" -> "STOCK" [] a = "owner" -> "OWNER"
      [] a = "asc" -> "ASC" [] a = "desc" -> "DESC" [] a = "bogus" -> "BOGUS"
      [] OTHER -> a

AGG_FUNCS == {"avg", "max", "min", "count", "sum"}

RESERVED == {"select", "order", "pageNo", "pageSize", "group", "or", "and"}

(* Cond {sql, values} together with ctx.n after it; err is the code of *)
(* the AppError thrown, "" when none.                                  *)
Cond(sql, values, n) == [n |-> n, sql |-> sql, err |-> "", values |-> values]
Throw(code) == [n |-> 0, sql |-> <<>>, err |-> code, values |-> <<>>]

RECURSIVE JoinSql(_, _)
JoinSql(conds, sep) ==
    IF Len(conds) = 0 THEN <<>>
    ELSE IF Len(conds) = 1 THEN conds[1].sql
    ELSE conds[1].sql \o sep \o JoinSql(Tail(conds), sep)

RECURSIVE FlatValues(_)
FlatValues(conds) ==
    IF Len(conds) = 0 THEN <<>> ELSE conds[1].values \o FlatValues(Tail(conds))

(* $n, $n+1, ... joined by ", " *)
(* the placeholders of an IN list, all of them numbered n *)
Placeholders_Same(n, count) ==
    IF count = 0 THEN <<>>
    ELSE [i \in 1 .. 2 * count - 1 |-> IF i % 2 = 1 THEN Ph(n) ELSE Kw(",")]

RECURSIVE Placeholders(_, _)
Placeholders(n, count) ==
    IF count = 0 THEN <<>>
    ELSE IF count = 1 THEN <<Ph(n)>>
    ELSE <<Ph(n), Kw(",")>> \o Placeholders(n + 1, count - 1)

(* ------------------------------------------------------------------ *)
(* query.ts: the structured (body) grammar                             *)
(* ------------------------------------------------------------------ *)
typedJson(t, field, v) == IF isNumeric(t, field) THEN NumberOfJson(v) ELSE v.n

bodyFieldCond(field, op, value, t, n) ==
    IF ~colMapHas(t, field) THEN Throw("QUERY_ERROR")
    ELSE LET f == q(field)
             o == toLowerCase(op)
         IN  IF o = "is" THEN Cond(<<f, Kw("IS"), Kw("NULL")>>, <<>>, n)
             ELSE IF o = "nis" \/ o = "ns"
             THEN Cond(<<f, Kw("IS"), Kw("NOT"), Kw("NULL")>>, <<>>, n)
             ELSE IF o = "like" \/ o = "nlike"
             THEN Cond(<<f>> \o (IF o = "like" THEN <<>> ELSE <<Kw("NOT")>>)
                         \o <<Kw("LIKE"), Ph(n)>>,
                       <<StringOfJson(value)>>, n + 1)
             ELSE IF o = "in" \/ o = "nin"
             THEN LET arr == IF value.j = "arr" THEN value.a ELSE <<value>>
                      not == IF o = "nin" THEN <<Kw("NOT")>> ELSE <<>>
                  IN  Cond(<<f>> \o not \o <<Kw("IN"), Kw("(")>>
                             \o Placeholders(n, Len(arr)) \o <<Kw(")")>>,
                           [i \in 1 .. Len(arr) |-> typedJson(t, field, arr[i])],
                           n + Len(arr))
             ELSE IF o = "between" \/ o = "bt"
             THEN LET arr == IF value.j = "arr" THEN value.a ELSE <<>>
                  IN  IF Len(arr) # 2 THEN Throw("QUERY_ERROR")
                      ELSE Cond(<<f, Kw("BETWEEN"), Ph(n), Kw("AND"), Ph(n + 1)>>,
                                [i \in 1 .. 2 |-> typedJson(t, field, arr[i])],
                                n + 2)
             ELSE IF OP(o) = "" THEN Throw("QUERY_ERROR")
             ELSE Cond(<<f, Kw(OP(o)), Ph(n)>>, <<typedJson(t, field, value)>>, n + 1)

(* normalizeWhereInput that takes every non-empty array for one tuple *)
normalizeWhereInput_Tuple(input) ==
    IF input.j # "arr" THEN <<input>>
    ELSE IF Len(input.a) = 0 THEN <<>>
    ELSE <<input>>

normalizeWhereInput(input) ==
    IF input.j # "arr" THEN <<input>>
    ELSE IF Len(input.a) = 0 THEN <<>>
    ELSE IF input.a[1].j = "str" THEN <<input>>
    ELSE input.a

(* the conditions a .map(...) has produced so far, or the error it threw *)
Conds(cs, n) == [err |-> "", conds |-> cs, n |-> n]
CondsThrow(code) == [err |-> code, conds |-> <<>>, n |-> 0]
Push(c, r) == IF r.err # "" THEN r ELSE Conds(<<c>> \o r.conds, r.n)

(* `(${parts.join(sep)})` with the parts' values *)
(* a group joined without its parentheses *)
Paren_Bare(cs, logic) ==
    IF cs.err # "" THEN Throw(cs.err)
    ELSE Cond(JoinSql(cs.conds, <<logic>>), FlatValues(cs.conds), cs.n)

Paren(cs, logic) ==
    IF cs.err # "" THEN Throw(cs.err)
    ELSE Cond(<<Kw("(")>> \o JoinSql(cs.conds, <<logic>>) \o <<Kw(")")>>,
              FlatValues(cs.conds), cs.n)

RECURSIVE bodyCondItem(_, _, _), bodyCondSeq(_, _, _), bodyChildren(_, _, _)

(* items.map(i => bodyCondItem(i, tbl, ctx)), ctx.n threaded left to right *)
bodyCondSeq(items, t, n) ==
    LET rest(c) == IF c.err # "" THEN CondsThrow(c.err)
                   ELSE Push(c, bodyCondSeq(Tail(items), t, c.n))
    IN  IF Len(items) = 0 THEN Conds(<<>>, n)
        ELSE rest(bodyCondItem(items[1], t, n))

(* (item.cond || []).map(c => ...) *)
bodyChildren(cond, t, n) ==
    LET rest(c) == IF c.err # "" THEN CondsThrow(c.err)
                   ELSE Push(c, bodyChildren(Tail(cond), t, c.n))
        sub(items) == IF Len(items) = 1 THEN bodyCondItem(items[1], t, n)
                      ELSE Paren(bodyCondSeq(items, t, n), Kw("AND"))
    IN  IF Len(cond) = 0 THEN Conds(<<>>, n)
        ELSE rest(sub(normalizeWhereInput(cond[1])))

bodyCondItem(item, t, n) ==
    IF item.j = "arr"
    THEN IF Len(item.a) = 2
         THEN bodyFieldCond(item.a[1].s, "eq", item.a[2], t, n)
         ELSE IF Len(item.a) = 3
         THEN bodyFieldCond(item.a[1].s, item.a[2].s, item.a[3], t, n)
         ELSE Throw("QUERY_ERROR")
    ELSE IF item.j = "grp"
    THEN Paren(bodyChildren(item.a, t, n), IF item.s = "or" THEN Kw("OR") ELSE Kw("AND"))
    ELSE bodyFieldCond(item.a[1].s, item.a[2].s, item.a[3], t, n)

(* {where, values}: the owner conjunct first, then the caller's items. *)
Where(wp, wv, n) ==
    [err |-> "", where |-> IF Len(wp) = 0 THEN <<>>
                           ELSE <<Kw("WHERE")>> \o JoinSql(wp, <<Kw("AND")>>),
     values |-> wv, n |-> n]
WhereThrow(code) == [err |-> code, where |-> <<>>, values |-> <<>>, n |-> 0]

(* wp, wv after the owner step (own) and the caller's conditions (cs) *)
WhereOf(own, cs) ==
    IF cs.err # "" THEN WhereThrow(cs.err)
    ELSE Where(own \o cs.conds, FlatValues(own \o cs.conds), cs.n)

(* a statement: its text up to the WHERE clause, then the clause *)
Stmt(head, w) == [err |-> w.err, sql |-> head \o w.where, values |-> w.values]

bodyBuildWhere_NoOwner(t, input, userId, n) ==
    WhereOf(<<>>, bodyCondSeq(IF input.j = "undef" THEN <<>>
                              ELSE normalizeWhereInput(input), t, n))

bodyBuildWhere(t, input, userId, n) ==
    WhereOf(IF t.hasOwner THEN <<Cond(ownerCond(n), <<userId>>, n + 1)>> ELSE <<>>,
            bodyCondSeq(IF input.j = "undef" THEN <<>> ELSE normalizeWhereInput(input),
                        t, IF t.hasOwner THEN n + 1 ELSE n))

buildBodyDeleteSQL(t, where, userId) ==
    Stmt(<<Kw("DELETE"), Kw("FROM"), q(t.name)>>, bodyBuildWhere(t, where, userId, 1))

(* ------------------------------------------------------------------ *)
(* query.ts: the textual (URL) grammar                                 *)
(* ------------------------------------------------------------------ *)
(* String helpers over atoms: indexOf, includes("..."), split("..."),  *)
(* split(","), replace(/\*/g, "%").                                    *)
IndexOf(str, a) ==
    IF \E i \in 1 .. Len(str) : str[i] = a
    THEN CHOOSE i \in 1 .. Len(str) : str[i] = a /\ \A m \in 1 .. i - 1 : str[m] # a
    ELSE 0

Slice(str, from, to) == SubSeq(str, from, to)

DotsAt(str, i) == i + 2 <= Len(str) /\ str[i] = "." /\ str[i + 1] = "." /\ str[i + 2] = "."
IncludesDots(str) == \E i \in 1 .. Len(str) : DotsAt(str, i)

RECURSIVE SplitDots(_)
SplitDots(str) ==
    IF ~IncludesDots(str) THEN <<str>>
    ELSE LET i == CHOOSE m \in 1 .. Len(str) :
                      DotsAt(str, m) /\ \A l \in 1 .. m - 1 : ~DotsAt(str, l)
         IN  <<Slice(str, 1, i - 1)>> \o SplitDots(Slice(str, i + 3, Len(str)))

RECURSIVE SplitComma(_)
SplitComma(str) ==
    LET i == IndexOf(str, ",")
    IN  IF i = 0 THEN <<str>>
        ELSE <<Slice(str, 1, i - 1)>> \o SplitComma(Slice(str, i + 1, Len(str)))

ReplaceStar(str) == [i \in 1 .. Len(str) |-> IF str[i] = "*" THEN "%" ELSE str[i]]

typed(v, t, field) == IF isNumeric(t, field) THEN NumberOfStr(v) ELSE NaN

buildIn(field, neg, val, t, n) ==
    LET f == q(field)
        inner == IF Len(val) >= 2 /\ val[1] = "(" /\ val[Len(val)] = ")"
                 THEN Slice(val, 2, Len(val) - 1) ELSE val
        not == IF neg THEN <<Kw("NOT")>> ELSE <<>>
    IN  IF IncludesDots(inner)
        THEN LET parts == SplitDots(inner)
                 lo == parts[1]
                 hi == parts[Len(parts)]
             IN  IF Len(lo) = 0 \/ Len(hi) = 0 THEN Throw("QUERY_ERROR")
                 ELSE Cond(<<f>> \o not \o <<Kw("BETWEEN"), Ph(n), Kw("AND"), Ph(n + 1)>>,
                           <<typed(lo, t, field), typed(hi, t, field)>>, n + 2)
        ELSE LET items == SplitComma(inner)
             IN  Cond(<<f>> \o not \o <<Kw("IN"), Kw("(")>>
                        \o Placeholders(n, Len(items)) \o <<Kw(")")>>,
                      [i \in 1 .. Len(items) |-> typed(items[i], t, field)],
                      n + Len(items))

buildCond(field, op, val, t, n) ==
    LET f == q(field)
    IN  IF op = "is" THEN Cond(<<f, Kw("IS"), Kw("NULL")>>, <<>>, n)
        ELSE IF op = "nis" \/ op = "ns"
        THEN Cond(<<f, Kw("IS"), Kw("NOT"), Kw("NULL")>>, <<>>, n)
        ELSE IF op = "like" \/ op = "nlike"
        THEN Cond(<<f>> \o (IF op = "like" THEN <<>> ELSE <<Kw("NOT")>>)
                    \o <<Kw("LIKE"), Ph(n)>>,
                  <<ReplaceStar(val)>>, n + 1)
        ELSE IF op = "in" \/ op = "nin" THEN buildIn(field, op = "nin", val, t, n)
        ELSE IF OP(op) = "" THEN Throw("QUERY_ERROR")
        ELSE Cond(<<f, Kw(OP(op)), Ph(n)>>, <<typed(val, t, field)>>, n + 1)

fieldCond(field, raw, t, n) ==
    IF Len(raw) >= 2 /\ raw[1] \in {"in", "nin"} /\ raw[2] = "("
    THEN buildCond(field, IF raw[1] = "nin" THEN "nin" ELSE "in", Tail(raw), t, n)
    ELSE LET dot == IndexOf(raw, ".")
         IN  IF dot = 0 THEN buildCond(field, "eq", raw, t, n)
             ELSE IF dot = 2 /\ toLowerCase(raw[1]) \in ALL_OPS
             THEN buildCond(field, toLowerCase(raw[1]), Slice(raw, dot + 1, Len(raw)), t, n)
             ELSE buildCond(field, "eq", raw, t, n)

(* splitTop: split on "," outside parentheses *)
RECURSIVE splitTopFrom(_, _, _, _)
splitTopFrom(str, i, depth, start) ==
    IF i > Len(str) THEN <<Slice(str, start, Len(str))>>
    ELSE IF str[i] = "(" THEN splitTopFrom(str, i + 1, depth + 1, start)
    ELSE IF str[i] = ")" THEN splitTopFrom(str, i + 1, depth - 1, start)
    ELSE IF str[i] = "," /\ depth = 0
    THEN <<Slice(str, start, i - 1)>> \o splitTopFrom(str, i + 1, depth, i + 1)
    ELSE splitTopFrom(str, i + 1, depth, start)

splitTop(str) == splitTopFrom(str, 1, 0, 1)

RECURSIVE group(_, _, _, _), expr(_, _, _), exprSeq(_, _, _)

(* parts.map(p => expr(p, tbl, ctx)) *)
exprSeq(parts, t, n) ==
    LET rest(c) == IF c.err # "" THEN CondsThrow(c.err)
                   ELSE Push(c, exprSeq(Tail(parts), t, c.n))
    IN  IF Len(parts) = 0 THEN Conds(<<>>, n)
        ELSE rest(expr(parts[1], t, n))

group(logic, raw, t, n) == Paren(exprSeq(splitTop(raw), t, n), Kw(logic))

expr(e, t, n) ==
    IF Len(e) >= 5 /\ e[1] \in {"or", "and"} /\ e[2] = "." /\ e[3] = "("
       /\ e[Len(e)] = ")"
    THEN group(IF e[1] = "or" THEN "OR" ELSE "AND", Slice(e, 4, Len(e) - 1), t, n)
    ELSE LET dot == IndexOf(e, ".")
         IN  IF dot = 0 THEN Throw("QUERY_ERROR")
             ELSE IF dot # 2 \/ ~colMapHas(t, e[1]) THEN Throw("QUERY_ERROR")
             ELSE fieldCond(e[1], Slice(e, dot + 1, Len(e)), t, n)

(* params[key]; "" when the parameter is absent *)
Param(params, key) ==
    IF \E i \in 1 .. Len(params) : params[i].k = key
    THEN params[CHOOSE i \in 1 .. Len(params) : params[i].k = key].v
    ELSE <<>>

(* step 2 of buildWhere: the plain field parameters, in order *)
RECURSIVE fieldParams(_, _, _)
fieldParams(params, t, n) ==
    LET rest(c) == IF c.err # "" THEN CondsThrow(c.err)
                   ELSE Push(c, fieldParams(Tail(params), t, c.n))
    IN  IF Len(params) = 0 THEN Conds(<<>>, n)
        ELSE IF params[1].k \in RESERVED \/ ~colMapHas(t, params[1].k)
        THEN fieldParams(Tail(params), t, n)
        ELSE rest(fieldCond(params[1].k, params[1].v, t, n))

(* step 3 of buildWhere: params.or, then params.and, after the conditions cs *)
logicParam(cs, logic, raw, t) ==
    LET add(c) == IF c.err # "" THEN CondsThrow(c.err)
                  ELSE Conds(cs.conds \o <<c>>, c.n)
    IN  IF cs.err # "" \/ Len(raw) = 0 THEN cs
        ELSE add(group(logic, raw, t, cs.n))

(* steps 2 and 3 of buildWhere *)
callerConds(t, params, n) ==
    logicParam(logicParam(fieldParams(params, t, n), "OR", Param(params, "or"), t),
               "AND", Param(params, "and"), t)

buildWhere_NoOwner(t, params, userId, n) == WhereOf(<<>>, callerConds(t, params, n))

buildWhere(t, params, userId, n) ==
    WhereOf(IF t.hasOwner THEN <<Cond(ownerCond(n), <<userId>>, n + 1)>> ELSE <<>>,
            callerConds(t, params, IF t.hasOwner THEN n + 1 ELSE n))

buildDeleteSQL(t, params, userId) ==
    Stmt(<<Kw("DELETE"), Kw("FROM"), q(t.name)>>, buildWhere(t, params, userId, 1))

(* ------------------------------------------------------------------ *)
(* query.ts: select list, ORDER BY, GROUP BY, LIMIT / OFFSET           *)
(* ------------------------------------------------------------------ *)
(* the characters of a string of atoms, as one name *)
RECURSIVE Name(_)
Name(str) == IF Len(str) = 0 THEN "" ELSE str[1] \o Name(Tail(str))

(* String.trim *)
RECURSIVE TrimStart(_)
TrimStart(str) ==
    IF Len(str) > 0 /\ str[1] = " " THEN TrimStart(Tail(str)) ELSE str
RECURSIVE TrimEnd(_)
TrimEnd(str) ==
    IF Len(str) > 0 /\ str[Len(str)] = " "
    THEN TrimEnd(SubSeq(str, 1, Len(str) - 1)) ELSE str
Trim(str) == TrimEnd(TrimStart(str))

(* split(":") *)
RECURSIVE SplitColon(_)
SplitColon(str) ==
    LET i == IndexOf(str, ":")
    IN  IF i = 0 THEN <<str>>
        ELSE <<Slice(str, 1, i - 1)>> \o SplitColon(Slice(str, i + 1, Len(str)))

(* parts.join(", ") over token sequences *)
RECURSIVE JoinToks(_)
JoinToks(parts) ==
    IF Len(parts) = 0 THEN <<>>
    ELSE IF Len(parts) = 1 THEN parts[1]
    ELSE parts[1] \o <<Kw(",")>> \o JoinToks(Tail(parts))

(* FN("field") AS "alias" *)
Call(fn, field, alias) ==
    <<Kw(toUpperCase(fn)), Kw("("), q(field), Kw(")"), Kw("AS"), q(alias)>>

(* a select string split on ":" (p holds the names of the parts) *)
selParts(p) ==
    IF Len(p) = 1 THEN <<q(p[1])>>
    ELSE IF Len(p) = 2
    THEN IF toLowerCase(p[1]) \in AGG_FUNCS
         THEN Call(p[1], p[2], toLowerCase(p[1]) \o ":" \o p[2])
         ELSE <<q(p[1]), Kw("AS"), q(p[2])>>
    ELSE Call(p[1], p[2], p[3])

Names(parts) == [i \in 1 .. Len(parts) |-> Name(parts[i])]

buildSel(raw) ==
    IF Len(raw) = 0 THEN <<Kw("*")>>
    ELSE LET items == SplitComma(raw)
         IN  JoinToks([i \in 1 .. Len(items) |->
                          selParts(Names(SplitColon(Trim(items[i]))))])

(* asc.field, desc.field or field *)
ordString(t) ==
    IF Len(t) >= 2 /\ t[1] = "asc" /\ t[2] = "."
    THEN <<q(Name(Slice(t, 3, Len(t)))), Kw("ASC")>>
    ELSE IF Len(t) >= 2 /\ t[1] = "desc" /\ t[2] = "."
    THEN <<q(Name(Slice(t, 3, Len(t)))), Kw("DESC")>>
    ELSE <<q(Name(t)), Kw("ASC")>>

buildOrd(raw) ==
    LET items == SplitComma(raw)
    IN  JoinToks([i \in 1 .. Len(items) |-> ordString(Trim(items[i]))])

(* items of a body's select and order arrays: a string, or an object   *)
(* whose absent members are ""                                         *)
SelStr(str) == [alias |-> "", j |-> "str", field |-> "", str |-> str, func |-> ""]
SelObj(field, alias, func) ==
    [alias |-> alias, j |-> "obj", field |-> field, str |-> <<>>, func |-> func]
OrdStr(str) == [j |-> "str", field |-> "", str |-> str, dir |-> ""]
OrdObj(field, dir) == [j |-> "obj", field |-> field, str |-> <<>>, dir |-> dir]

bodySelItem(item) ==
    IF item.j = "str" THEN selParts(Names(SplitColon(item.str)))
    ELSE LET col == IF item.func # ""
                    THEN <<Kw(toUpperCase(item.func)), Kw("("), q(item.field), Kw(")")>>
                    ELSE <<q(item.field)>>
         IN  IF item.alias # "" THEN col \o <<Kw("AS"), q(item.alias)>>
             ELSE IF item.func # ""
             THEN col \o <<Kw("AS"), q(toLowerCase(item.func) \o ":" \o item.field)>>
             ELSE col

bodyBuildSel(items) ==
    IF Len(items) = 0 THEN <<Kw("*")>>
    ELSE JoinToks([i \in 1 .. Len(items) |-> bodySelItem(items[i])])

bodyBuildOrd(items) ==
    JoinToks([i \in 1 .. Len(items) |->
                 IF items[i].j = "str" THEN ordString(items[i].str)
                 ELSE <<q(items[i].field),
                        Kw(toUpperCase(IF items[i].dir = "" THEN "asc" ELSE items[i].dir))>>])

(* Math.max, Math.min and arithmetic of JS numbers: NaN is contagious *)
MathMax(a, b) == IF a = NaN \/ b = NaN THEN NaN ELSE IF a >= b THEN a ELSE b
MathMin(a, b) == IF a = NaN \/ b = NaN THEN NaN ELSE IF a <= b THEN a ELSE b
Minus(a, b) == IF a = NaN \/ b = NaN THEN NaN ELSE a - b
Times(a, b) == IF a = NaN \/ b = NaN THEN NaN ELSE a * b

(* a number written into the SQL text *)
Num(n) == [k |-> "num", s |-> "", n |-> n]

(* a LIMIT clause whose OFFSET is pageNo * pageSize *)
Limit_SkipFirstPage(pageNo, pageSize) ==
    IF pageNo # ABSENT /\ pageSize # ABSENT
    THEN <<Kw("LIMIT"), Num(pageSize), Kw("OFFSET"), Num(Times(pageNo, pageSize))>>
    ELSE <<>>

(* `LIMIT ${pageSize} OFFSET ${(pageNo - 1) * pageSize}`, or "" *)
Limit(pageNo, pageSize) ==
    IF pageNo # ABSENT /\ pageSize # ABSENT
    THEN <<Kw("LIMIT"), Num(pageSize), Kw("OFFSET"), Num(Times(Minus(pageNo, 1), pageSize))>>
    ELSE <<>>

(* ListSQL whose count statement leaves GROUP BY out *)
ListSQL_CountRows(t, cols, w, grp, ord, pageNo, pageSize) ==
    [err |-> w.err,
     sql |-> <<Kw("SELECT")>> \o cols \o <<Kw("FROM"), q(t.name)>> \o w.where
             \o grp \o ord \o Limit(pageNo, pageSize),
     countSql |->
         <<Kw("SELECT"), Kw("COUNT"), Kw("("), Kw("*"), Kw(")"), Kw("AS"), q("total"),
           Kw("FROM"), q(t.name)>> \o w.where,
     values |-> w.values, countValues |-> w.values,
     pageNo |-> pageNo, pageSize |-> pageSize]

(* ListSQL: the list statement, the count statement and the page *)
ListSQL(t, cols, w, grp, ord, pageNo, pageSize) ==
    [err |-> w.err,
     sql |-> <<Kw("SELECT")>> \o cols \o <<Kw("FROM"), q(t.name)>> \o w.where
             \o grp \o ord \o Limit(pageNo, pageSize),
     countSql |->
         IF Len(grp) > 0
         THEN <<Kw("SELECT"), Kw("COUNT"), Kw("("), Kw("*"), Kw(")"), Kw("AS"), q("total"),
                Kw("FROM"), Kw("("), Kw("SELECT"), Kw("1"), Kw("FROM"), q(t.name)>>
              \o w.where \o grp \o <<Kw(")"), Kw("AS"), q("_sub")>>
         ELSE <<Kw("SELECT"), Kw("COUNT"), Kw("("), Kw("*"), Kw(")"), Kw("AS"), q("total"),
                Kw("FROM"), q(t.name)>> \o w.where,
     values |-> w.values, countValues |-> w.values,
     pageNo |-> pageNo, pageSize |-> pageSize]

buildListSQL(t, params, userId) ==
    LET grp == SplitComma(Param(params, "group"))
        ord == Param(params, "order")
        no == Param(params, "pageNo")
        size == Param(params, "pageSize")
    IN  ListSQL(t, buildSel(Param(params, "select")),
                buildWhere(t, params, userId, 1),
                IF Len(Param(params, "group")) = 0 THEN <<>>
                ELSE <<Kw("GROUP"), Kw("BY")>>
                     \o JoinToks([i \in 1 .. Len(grp) |-> <<q(Name(Trim(grp[i])))>>]),
                IF Len(ord) = 0 THEN <<>>
                ELSE <<Kw("ORDER"), Kw("BY")>> \o buildOrd(ord),
                IF Len(no) = 0 THEN ABSENT ELSE MathMax(1, NumberOfStr(no)),
                IF Len(size) = 0 THEN ABSENT
                ELSE MathMin(1000, MathMax(1, NumberOfStr(size))))

(* a request body of POST /api/query; absent members are empty or ABSENT *)
BodyQuery(sl, w, ord, grp, pageNo, pageSize) ==
    [select |-> sl, where |-> w, order |-> ord, group |-> grp,
     pageNo |-> pageNo, pageSize |-> pageSize]

buildBodyListSQL(t, body, userId) ==
    ListSQL(t, bodyBuildSel(body.select),
            bodyBuildWhere(t, body.where, userId, 1),
            IF Len(body.group) = 0 THEN <<>>
            ELSE <<Kw("GROUP"), Kw("BY")>>
                 \o JoinToks([i \in 1 .. Len(body.group) |-> <<q(body.group[i])>>]),
            IF Len(body.order) = 0 THEN <<>>
            ELSE <<Kw("ORDER"), Kw("BY")>> \o bodyBuildOrd(body.order),
            IF body.pageNo = ABSENT \/ body.pageNo = 0 THEN ABSENT
            ELSE MathMax(1, body.pageNo),
            IF body.pageSize = ABSENT \/ body.pageSize = 0 THEN ABSENT
            ELSE MathMin(1000, MathMax(1, body.pageSize)))

(* ------------------------------------------------------------------ *)
(* Requests and responses                                              *)
(* ------------------------------------------------------------------ *)
(* A save item or a set object: the keys it carries, ABSENT otherwise. *)
Item(id, stock, owner) == [id |-> id, stock |-> stock, owner |-> owner]
NoItem == Item(ABSENT, ABSENT, ABSENT)
ItemKeys == <<"id", "stock", "owner">>

(* Object.entries(item) *)
RECURSIVE EntriesFrom(_, _)
EntriesFrom(item, i) ==
    IF i > Len(ItemKeys) THEN <<>>
    ELSE (IF item[ItemKeys[i]] # ABSENT
          THEN <<[k |-> ItemKeys[i], v |-> item[ItemKeys[i]]]>> ELSE <<>>)
         \o EntriesFrom(item, i + 1)
Entries(item) == EntriesFrom(item, 1)

(* select, order, group, pageNo and pageSize of a request body *)
Opts(sl, ord, grp, pageNo, pageSize) ==
    [group |-> grp, order |-> ord, pageNo |-> pageNo, pageSize |-> pageSize, select |-> sl]
NoOpts == Opts(<<>>, <<>>, <<>>, ABSENT, ABSENT)

Req(op, user, pk, params, where, items, set) ==
    [pk |-> pk, op |-> op, items |-> items, where |-> where, params |-> params,
     user |-> user, set |-> set, opts |-> NoOpts]
(* POST /api/query/:table with a full body *)
ReqQuery(user, where, opts) ==
    [Req("query", user, <<>>, <<>>, where, <<>>, NoItem) EXCEPT !.opts = opts]
NoReq == Req("none", 0, <<>>, <<>>, JUndef, <<>>, NoItem)

Resp(code, outRows, created, updated, deleted) ==
    [rows |-> outRows, data |-> <<>>, total |-> ABSENT, code |-> code,
     pageNo |-> ABSENT, pageSize |-> ABSENT, created |-> created, updated |-> updated,
     deleted |-> deleted, catalog |-> {}]
Fail(code) == Resp(code, {}, <<>>, <<>>, <<>>)
NoResp == Fail("none")

(* The keys of a set of rows, ascending (the order a table scan returns). *)
RECURSIVE SortedIds(_)
SortedIds(rs) ==
    IF rs = {} THEN <<>>
    ELSE LET m == CHOOSE r \in rs : \A o \in rs : r.id <= o.id
         IN  <<m.id>> \o SortedIds(rs \ {m})

stripOwner(rs, t) ==
    IF ~t.hasOwner THEN rs ELSE {[r EXCEPT !.owner = ABSENT] : r \in rs}

(* ------------------------------------------------------------------ *)
(* crud.ts: by-key statements                                          *)
(* ------------------------------------------------------------------ *)
byKeyWhere_NoOwner(t) == <<Kw("WHERE"), q(t.pk), Kw("="), Ph(1)>>

byKeyWhere(t) ==
    <<Kw("WHERE"), q(t.pk), Kw("="), Ph(1)>>
    \o (IF t.hasOwner THEN <<Kw("AND")>> \o ownerCond(2) ELSE <<>>)

byKeyParams(t, pkVal, userId) == <<pkVal>> \o (IF t.hasOwner THEN <<userId>> ELSE <<>>)

(* GET /api/query/:table/:pk *)
getByKey(db, t, r) ==
    IF t.pk = NOPK THEN Fail("TABLE_ERROR")
    ELSE LET pkVal == IF isNumeric(t, t.pk) THEN NumberOfStr(r.pk) ELSE NaN
             res == DbSelect(db, <<Kw("SELECT"), Kw("*"), Kw("FROM"), q(t.name)>> \o byKeyWhere(t),
                             byKeyParams(t, pkVal, r.user))
         IN  IF res.err THEN Fail("SYS_ERROR")
             ELSE Resp("OK", stripOwner(res.rows, t), <<>>, <<>>, <<>>)

(* DELETE /api/delete/:table/:pk *)
deleteByKey(db, t, r) ==
    IF t.pk = NOPK THEN [db |-> db, resp |-> Fail("TABLE_ERROR")]
    ELSE LET pkVal == IF isNumeric(t, t.pk) THEN NumberOfStr(r.pk) ELSE NaN
             res == DbDelete(db, <<Kw("DELETE"), Kw("FROM"), q(t.name)>> \o byKeyWhere(t),
                             byKeyParams(t, pkVal, r.user))
         IN  IF res.err THEN [db |-> db, resp |-> Fail("SYS_ERROR")]
             ELSE [db |-> res.db,
                   resp |-> Resp("OK", {}, <<>>, <<>>,
                                 IF Cardinality(res.hit) > 0 THEN <<pkVal>> ELSE <<>>)]

(* stripOwner over the lines of a list result *)
RECURSIVE Without(_, _)
Without(line, k) ==
    IF Len(line) = 0 THEN <<>>
    ELSE (IF line[1].k = k THEN <<>> ELSE <<line[1]>>) \o Without(Tail(line), k)
stripOwnerData(data, t) ==
    IF ~t.hasOwner THEN data ELSE [i \in 1 .. Len(data) |-> Without(data[i], ownerField)]

(* the value a line holds under key k, ABSENT when it has no such key *)
Get(line, k) ==
    IF \E i \in 1 .. Len(line) : line[i].k = k
    THEN line[CHOOSE i \in 1 .. Len(line) : line[i].k = k].v
    ELSE ABSENT
(* the lines of a list result that are whole rows of the table *)
RowsOf(data) ==
    {[id |-> Get(data[i], "id"), stock |-> Get(data[i], "stock"),
      owner |-> Get(data[i], "owner")] :
        i \in {m \in 1 .. Len(data) :
                   Get(data[m], "id") # ABSENT /\ Get(data[m], "stock") # ABSENT}}

(* ok(data) and paged(data, pageNo, pageSize, total) *)
ok(data) == [Resp("OK", RowsOf(data), <<>>, <<>>, <<>>) EXCEPT !.data = data]
paged(data, pageNo, pageSize, total) ==
    [ok(data) EXCEPT !.pageNo = pageNo, !.pageSize = pageSize, !.total = total]

(* GET /api/query/:table and POST /api/query/:table *)
listRows(db, t, stmt) ==
    LET count(data, cnt) ==
            IF cnt.err THEN Fail("SYS_ERROR")
            ELSE paged(data, stmt.pageNo, stmt.pageSize, cnt.total)
        answer(res) ==
            IF res.err THEN Fail("SYS_ERROR")
            ELSE IF stmt.pageNo # ABSENT /\ stmt.pageSize # ABSENT
            THEN count(stripOwnerData(res.data, t),
                       DbCount(db, stmt.countSql, stmt.countValues))
            ELSE ok(stripOwnerData(res.data, t))
    IN  IF stmt.err # "" THEN Fail(stmt.err)
        ELSE answer(DbQuery(db, stmt.sql, stmt.values))

(* bodyQuerySchema: what the validator of POST /api/query lets through *)
bodyQuerySchema(o) ==
    /\ \A i \in 1 .. Len(o.select) :
           IF o.select[i].j = "str" THEN Len(o.select[i].str) >= 1
           ELSE o.select[i].field # ""
    /\ \A i \in 1 .. Len(o.order) :
           IF o.order[i].j = "str" THEN Len(o.order[i].str) >= 1
           ELSE o.order[i].field # "" /\ o.order[i].dir \in {"", "asc", "desc"}
    /\ o.pageNo = ABSENT \/ o.pageNo >= 1
    /\ o.pageSize = ABSENT \/ (o.pageSize >= 1 /\ o.pageSize <= 1000)

(* bodyWhereItemSchema and bodyWhereInputSchema *)
RECURSIVE bodyWhereItemSchema(_), bodyWhereInputSchema(_)
bodyWhereItemSchema(w) ==
    CASE w.j = "arr" -> \/ Len(w.a) = 2 /\ w.a[1].j = "str"
                        \/ Len(w.a) = 3 /\ w.a[1].j = "str" /\ w.a[2].j = "str"
      [] w.j = "obj" -> TRUE
      [] w.j = "grp" -> /\ w.s \in {"and", "or"}
                        /\ \A i \in 1 .. Len(w.a) : bodyWhereInputSchema(w.a[i])
      [] OTHER -> FALSE
bodyWhereInputSchema(w) ==
    \/ bodyWhereItemSchema(w)
    \/ w.j = "arr" /\ \A i \in 1 .. Len(w.a) : bodyWhereItemSchema(w.a[i])

(* zValidator("json", schema, zodHook) of the route of request r: TRUE *)
(* when the body passes, and for the routes that have no validator    *)
zValidator(r) ==
    CASE r.op = "query" -> /\ bodyQuerySchema(r.opts)
                           /\ r.where.j = "undef" \/ bodyWhereInputSchema(r.where)
      [] r.op \in {"deleteBody", "update"} -> bodyWhereInputSchema(r.where)
      [] r.op \in {"insert", "upsert", "patch"} -> Len(r.items) >= 1
      [] OTHER -> TRUE

(* ------------------------------------------------------------------ *)
(* crud.ts: save helpers                                               *)
(* ------------------------------------------------------------------ *)
(* existsRowWith that looks the key up without the tenant filter *)
existsRowWith_AnyOwner(db, t, pkVal, userId) ==
    DbSelect(db, <<Kw("SELECT"), Kw("1"), Kw("FROM"), q(t.name)>> \o byKeyWhere_NoOwner(t),
             <<pkVal>>).rows # {}

existsRowWith(db, t, pkVal, userId) ==
    DbSelect(db, <<Kw("SELECT"), Kw("1"), Kw("FROM"), q(t.name)>> \o byKeyWhere(t),
             byKeyParams(t, pkVal, userId)).rows # {}

(* the columns an insert or a sparse update takes from the item *)
RECURSIVE Keep(_, _, _)
(* the filter that drops the owner column of inserted rows only *)
RECURSIVE Keep_OwnerOnInsert(_, _, _)
Keep_OwnerOnInsert(entries, t, skipPk) ==
    IF Len(entries) = 0 THEN <<>>
    ELSE (IF (skipPk /\ entries[1].k = t.pk)
             \/ (entries[1].k = ownerField /\ t.hasOwner /\ ~skipPk)
             \/ ~colMapHas(t, entries[1].k)
          THEN <<>> ELSE <<entries[1]>>)
         \o Keep_OwnerOnInsert(Tail(entries), t, skipPk)

Keep(entries, t, skipPk) ==
    IF Len(entries) = 0 THEN <<>>
    ELSE (IF (skipPk /\ entries[1].k = t.pk)
             \/ (entries[1].k = ownerField /\ t.hasOwner)
             \/ ~colMapHas(t, entries[1].k)
          THEN <<>> ELSE <<entries[1]>>)
         \o Keep(Tail(entries), t, skipPk)

insertRowWith_PayloadOwner(db, sq, t, item, userId) ==
    LET es == Entries(item)
        own == IF t.hasOwner /\ item.owner = ABSENT
               THEN <<[k |-> ownerField, v |-> userId]>> ELSE <<>>
        all == es \o own
        res == DbInsert(db, sq, [i \in 1 .. Len(all) |-> all[i].k],
                        [i \in 1 .. Len(all) |-> all[i].v])
    IN  [err |-> res.err, db |-> res.db, seq |-> res.seq,
         pk |-> IF t.pk # NOPK /\ item[t.pk] # ABSENT THEN item[t.pk]
                ELSE IF t.pk # NOPK THEN res.id ELSE NULL]

insertRowWith(db, sq, t, item, userId) ==
    LET es == Keep(Entries(item), t, FALSE)
        own == IF t.hasOwner THEN <<[k |-> ownerField, v |-> userId]>> ELSE <<>>
        all == es \o own
        res == DbInsert(db, sq, [i \in 1 .. Len(all) |-> all[i].k],
                        [i \in 1 .. Len(all) |-> all[i].v])
    IN  [err |-> res.err, db |-> res.db, seq |-> res.seq,
         pk |-> IF t.pk # NOPK /\ item[t.pk] # ABSENT THEN item[t.pk]
                ELSE IF t.pk # NOPK THEN res.id ELSE NULL]

(* "col" = $n, "col" = $n+1, ... *)
RECURSIVE SetClauses(_, _)
SetClauses(es, n) ==
    IF Len(es) = 0 THEN <<>>
    ELSE <<q(es[1].k), Kw("="), Ph(n)>>
         \o (IF Len(es) > 1 THEN <<Kw(",")>> ELSE <<>>)
         \o SetClauses(Tail(es), n + 1)

(* updateRowWith that returns before it runs the UPDATE *)
updateRowWith_NoOp(db, t, item, userId) == [err |-> FALSE, db |-> db]

updateRowWith(db, t, item, userId) ==
    LET es == Keep(Entries(item), t, TRUE)
        n == Len(es) + 1
        sql == <<Kw("UPDATE"), q(t.name), Kw("SET")>> \o SetClauses(es, 1)
               \o <<Kw("WHERE"), q(t.pk), Kw("="), Ph(n)>>
               \o (IF t.hasOwner THEN <<Kw("AND")>> \o ownerCond(n + 1) ELSE <<>>)
        vals == [i \in 1 .. Len(es) |-> es[i].v] \o <<item[t.pk]>>
                \o (IF t.hasOwner THEN <<userId>> ELSE <<>>)
    IN  IF Len(es) = 0 THEN [err |-> FALSE, db |-> db]
        ELSE LET res == DbUpdate(db, sql, vals) IN [err |-> res.err, db |-> res.db]

(* ------------------------------------------------------------------ *)
(* db.ts: runTransaction. The callback's statements run as one serial  *)
(* unit; a throw rolls every statement of the callback back.           *)
(* ------------------------------------------------------------------ *)
St(db, sq) == [db |-> db, seq |-> sq, err |-> "", created |-> <<>>, updated |-> <<>>]

runTransaction(st0, st) ==
    IF st.err # "" THEN [st0 EXCEPT !.err = st.err] ELSE st

(* the transaction lock is free, or held by slot s *)
TxFree == lock = 0

(* ------------------------------------------------------------------ *)
(* crud.ts: POST / PUT / PATCH /api/save/:table                        *)
(* ------------------------------------------------------------------ *)
HasPk(t, item) == t.pk # NOPK /\ item[t.pk] # ABSENT

RECURSIVE insertItems(_, _, _, _)
insertItems(items, st, t, userId) ==
    IF Len(items) = 0 \/ st.err # "" THEN st
    ELSE LET item == items[1]
         IN  IF HasPk(t, item) /\ existsRowWith(st.db, t, item[t.pk], userId)
             THEN [st EXCEPT !.err = "CONFLICT"]
             ELSE LET ins == insertRowWith(st.db, st.seq, t, item, userId)
                  IN  IF ins.err THEN [st EXCEPT !.err = "SYS_ERROR"]
                      ELSE insertItems(Tail(items),
                                       [st EXCEPT !.db = ins.db, !.seq = ins.seq,
                                                  !.created = @ \o <<ins.pk>>],
                                       t, userId)

RECURSIVE upsertItems(_, _, _, _)
upsertItems(items, st, t, userId) ==
    IF Len(items) = 0 \/ st.err # "" THEN st
    ELSE LET item == items[1]
         IN  IF HasPk(t, item) /\ existsRowWith(st.db, t, item[t.pk], userId)
             THEN LET upd == updateRowWith(st.db, t, item, userId)
                  IN  IF upd.err THEN [st EXCEPT !.err = "SYS_ERROR"]
                      ELSE upsertItems(Tail(items),
                                       [st EXCEPT !.db = upd.db,
                                                  !.updated = @ \o <<item[t.pk]>>],
                                       t, userId)
             ELSE LET ins == insertRowWith(st.db, st.seq, t, item, userId)
                  IN  IF ins.err THEN [st EXCEPT !.err = "SYS_ERROR"]
                      ELSE upsertItems(Tail(items),
                                       [st EXCEPT !.db = ins.db, !.seq = ins.seq,
                                                  !.created = @ \o <<ins.pk>>],
                                       t, userId)

RECURSIVE patchItems(_, _, _, _)
patchItems(items, st, t, userId) ==
    IF Len(items) = 0 \/ st.err # "" THEN st
    ELSE LET item == items[1]
         IN  IF item[t.pk] = ABSENT THEN [st EXCEPT !.err = "VALIDATION_ERROR"]
             ELSE IF ~existsRowWith(st.db, t, item[t.pk], userId)
             THEN [st EXCEPT !.err = "NOT_FOUND"]
             ELSE LET upd == updateRowWith(st.db, t, item, userId)
                  IN  IF upd.err THEN [st EXCEPT !.err = "SYS_ERROR"]
                      ELSE patchItems(Tail(items),
                                      [st EXCEPT !.db = upd.db,
                                                 !.updated = @ \o <<item[t.pk]>>],
                                      t, userId)

SaveResp(st) ==
    IF st.err # "" THEN Fail(st.err) ELSE Resp("OK", {}, st.created, st.updated, <<>>)

(* postSave whose loop runs outside the transaction *)
postSave_NoTx(db, sq, t, r) == insertItems(r.items, St(db, sq), t, r.user)

postSave(db, sq, t, r) == runTransaction(St(db, sq), insertItems(r.items, St(db, sq), t, r.user))
putSave(db, sq, t, r) == runTransaction(St(db, sq), upsertItems(r.items, St(db, sq), t, r.user))
patchSave(db, sq, t, r) ==
    IF t.pk = NOPK THEN [St(db, sq) EXCEPT !.err = "TABLE_ERROR"]
    ELSE runTransaction(St(db, sq), patchItems(r.items, St(db, sq), t, r.user))

(* ------------------------------------------------------------------ *)
(* crud.ts: conditional delete and conditional update                  *)
(* ------------------------------------------------------------------ *)
(* selectSqlOf without the condition: the SELECT returns every key *)
selectSqlOf_AllKeys(deleteSql, t) == <<Kw("SELECT"), q(t.pk), Kw("FROM"), q(t.name)>>

(* deleteSql.replace(/^DELETE\s+FROM/i, `SELECT ${q(tbl.pk)} FROM`) *)
selectSqlOf(deleteSql, t) ==
    IF Tok(deleteSql, 1) = Kw("DELETE") /\ Tok(deleteSql, 2) = Kw("FROM")
    THEN <<Kw("SELECT"), q(t.pk), Kw("FROM")>> \o SubSeq(deleteSql, 3, Len(deleteSql))
    ELSE deleteSql

(* the compiled DELETE of a conditional-delete request *)
deleteStmt(t, r) ==
    IF r.op = "delete" THEN buildDeleteSQL(t, r.params, r.user)
    ELSE IF r.where.j = "undef"
    THEN [err |-> "VALIDATION_ERROR", sql |-> <<>>, values |-> <<>>]
    ELSE buildBodyDeleteSQL(t, r.where, r.user)

UpdateThrow(code) ==
    [err |-> code, updateSql |-> <<>>, selectSql |-> <<>>,
     updateValues |-> <<>>, selectValues |-> <<>>]

(* buildBodyUpdateSQL whose SELECT lost its WHERE clause *)
buildBodyUpdateSQL_SelectAll(t, set, where, userId) ==
    LET built(es, updW) ==
            IF updW.err # "" THEN UpdateThrow(updW.err)
            ELSE [err |-> "",
                  updateSql |-> <<Kw("UPDATE"), q(t.name), Kw("SET")>>
                                \o SetClauses(es, 1) \o updW.where,
                  selectSql |-> <<Kw("SELECT"), q(t.pk), Kw("FROM"), q(t.name)>>,
                  updateValues |-> [i \in 1 .. Len(es) |-> es[i].v] \o updW.values,
                  selectValues |-> <<>>]
        sets(es) ==
            IF Len(es) = 0 THEN UpdateThrow("QUERY_ERROR")
            ELSE built(es, bodyBuildWhere(t, where, userId, Len(es) + 1))
    IN  IF where.j = "arr" /\ Len(where.a) = 0 THEN UpdateThrow("QUERY_ERROR")
        ELSE sets(Keep(Entries(set), t, TRUE))

(* buildBodyUpdateSQL without its test for an empty where array *)
buildBodyUpdateSQL_AnyWhere(t, set, where, userId) ==
    LET built(es, updW, selW) ==
            IF updW.err # "" THEN UpdateThrow(updW.err)
            ELSE IF Len(updW.where) = 0 THEN UpdateThrow("QUERY_ERROR")
            ELSE [err |-> "",
                  updateSql |-> <<Kw("UPDATE"), q(t.name), Kw("SET")>>
                                \o SetClauses(es, 1) \o updW.where,
                  selectSql |-> <<Kw("SELECT"), q(t.pk), Kw("FROM"), q(t.name)>>
                                \o selW.where,
                  updateValues |-> [i \in 1 .. Len(es) |-> es[i].v] \o updW.values,
                  selectValues |-> selW.values]
        sets(es) ==
            IF Len(es) = 0 THEN UpdateThrow("QUERY_ERROR")
            ELSE built(es, bodyBuildWhere(t, where, userId, Len(es) + 1),
                       bodyBuildWhere(t, where, userId, 1))
    IN  sets(Keep(Entries(set), t, TRUE))

buildBodyUpdateSQL(t, set, where, userId) ==
    LET built(es, updW, selW) ==
            IF updW.err # "" THEN UpdateThrow(updW.err)
            ELSE IF Len(updW.where) = 0 THEN UpdateThrow("QUERY_ERROR")
            ELSE [err |-> "",
                  updateSql |-> <<Kw("UPDATE"), q(t.name), Kw("SET")>>
                                \o SetClauses(es, 1) \o updW.where,
                  selectSql |-> <<Kw("SELECT"), q(t.pk), Kw("FROM"), q(t.name)>>
                                \o selW.where,
                  updateValues |-> [i \in 1 .. Len(es) |-> es[i].v] \o updW.values,
                  selectValues |-> selW.values]
        sets(es) ==
            IF Len(es) = 0 THEN UpdateThrow("QUERY_ERROR")
            ELSE built(es, bodyBuildWhere(t, where, userId, Len(es) + 1),
                       bodyBuildWhere(t, where, userId, 1))
    IN  IF where.j = "arr" /\ Len(where.a) = 0 THEN UpdateThrow("QUERY_ERROR")
        ELSE sets(Keep(Entries(set), t, TRUE))

(* the compiled statements of a conditional-update request *)
updateStmt(t, r) ==
    IF r.where.j = "undef" \/ Len(Entries(r.set)) = 0
    THEN UpdateThrow("VALIDATION_ERROR")
    ELSE buildBodyUpdateSQL(t, r.set, r.where, r.user)

(* ------------------------------------------------------------------ *)
(* Requests the clients send                                           *)
(* ------------------------------------------------------------------ *)
Other(u) == CHOOSE o \in Users : o # u
Digit(n) == DigitAtoms[n + 1]
P(k, v) == [k |-> k, v |-> v]

(* URL query strings: conditions of the textual grammar *)
UrlWheres(u) ==
    { <<P("stock", <<Digit(MaxVal)>>)>>,
      <<P("stock", <<"ge", ".", "0">>)>>,
      <<P("owner", <<Digit(Other(u))>>)>>,
      <<P("id", <<"in", "(", "1", ",", Digit(MaxPk), ")">>)>>,
      <<P("id", <<"in", ".", "(", "1", ".", ".", ".", Digit(MaxPk), ")">>)>>,
      <<P("or", <<"owner", ".", "eq", ".", Digit(Other(u)), ",", "stock", ".", "ge", ".", "0">>)>>,
      <<P("stock", <<"ge", ".", "0">>),
        P("or", <<"and", ".", "(", "owner", ".", "nis", ".", ",", "id", ".", "ge", ".", "1", ")",
                  ",", "owner", ".", "eq", ".", Digit(Other(u))>>)>>,
      <<P("bogus", <<"1">>)>> }

UrlListParams(u) == UrlWheres(u) \cup {<<>>}
UrlDeleteParams(u) == UrlWheres(u) \cup {<<>>}

(* JSON bodies: conditions of the structured grammar *)
T2(f, v) == JArr(<<JStr(f), v>>)
T3(f, op, v) == JArr(<<JStr(f), JStr(op), v>>)

BodyWheres(u) ==
    { T3("stock", "ge", JNum(0)),
      T2("stock", JNum(MaxVal)),
      T2("owner", JNum(Other(u))),
      JArr(<<T2("id", JNum(1)), JObj("stock", "in", JArr(<<JNum(0), JNum(MaxVal)>>))>>),
      JGrp("or", <<T3("owner", "eq", JNum(Other(u))), T3("stock", "ge", JNum(0))>>),
      JGrp("or", <<JArr(<<T2("owner", JNum(Other(u))), T3("stock", "GE", JNum(0))>>),
                   T3("id", "between", JArr(<<JNum(1), JNum(MaxPk)>>)),
                   JObj("owner", "nis", JUndef)>>),
      JArr(<<>>) }

SetObjects(u) ==
    {Item(ABSENT, v, ABSENT) : v \in Vals}
    \cup {Item(MaxPk, MaxVal, Other(u)), Item(ABSENT, ABSENT, Other(u)), NoItem}

SingleItems(u) ==
    {Item(i, st, ow) : i \in PKs \cup {ABSENT}, st \in Vals \cup {ABSENT},
                       ow \in {ABSENT, Other(u)}}
BatchItems == {Item(i, MaxVal, ABSENT) : i \in {1, MaxPk, ABSENT}}
Batches(u) == {<<a>> : a \in SingleItems(u)} \cup {<<a, b>> : a, b \in BatchItems}

Requests ==
    UNION { {Req("get", u, <<Digit(k)>>, <<>>, JUndef, <<>>, NoItem) : k \in PKs}
            \cup {Req("deleteByKey", u, <<Digit(k)>>, <<>>, JUndef, <<>>, NoItem) : k \in PKs}
            \cup {Req("list", u, <<>>, ps, JUndef, <<>>, NoItem) : ps \in UrlListParams(u)}
            \cup {Req("query", u, <<>>, <<>>, w, <<>>, NoItem) : w \in BodyWheres(u) \cup {JUndef}}
            \cup {Req("delete", u, <<>>, ps, JUndef, <<>>, NoItem) : ps \in UrlDeleteParams(u)}
            \cup {Req("deleteBody", u, <<>>, <<>>, w, <<>>, NoItem) : w \in BodyWheres(u) \cup {JUndef}}
            \cup {Req("update", u, <<>>, <<>>, w, <<>>, st) :
                      w \in BodyWheres(u) \cup {JUndef}, st \in SetObjects(u)}
            \cup {Req(op, u, <<>>, <<>>, JUndef, b, NoItem) :
                      op \in {"insert", "upsert", "patch"}, b \in Batches(u)}
          : u \in Users }

(* items of a request that take the next AUTOINCREMENT key *)
NoKeyCount(r) ==
    IF r.op \in {"insert", "upsert"}
    THEN Cardinality({i \in 1 .. Len(r.items) : r.items[i].id = ABSENT})
    ELSE 0

(* ------------------------------------------------------------------ *)
(* Actions                                                             *)
(* ------------------------------------------------------------------ *)
Done(s, r) ==
    /\ pc' = [pc EXCEPT ![s] = "done"]
    /\ resp' = [resp EXCEPT ![s] = r]
    /\ UNCHANGED catVars

(* requireTable: the code of the error it throws, "" when the cache   *)
(* holds the table the request names and it is not the auth table     *)
requireTable(name) ==
    IF isAuthTable(name) THEN "FORBIDDEN"
    ELSE IF name \in tables THEN "" ELSE "NOT_FOUND"
Found(s) == requireTable(tbl.name) = ""

(* the keys the requests not yet handled will draw from AUTOINCREMENT *)
Pending(s) == IF pc[s] = "pending" THEN NoKeyCount(req[s]) ELSE 0
InFlight == Pending(1) + Pending(2)

(* a request arrives; the model keeps AUTOINCREMENT keys within PKs *)
Receive(s, r) ==
    /\ pc[s] = "idle"
    /\ seq + InFlight + NoKeyCount(r) <= MaxPk
    /\ pc' = [pc EXCEPT ![s] = "pending"]
    /\ req' = [req EXCEPT ![s] = r]
    /\ UNCHANGED <<rows, seq, tbl, nullOpen, resp, lock, sel>>
    /\ UNCHANGED catVars

(* the response has been delivered *)
Reply(s) ==
    /\ pc[s] = "done"
    /\ pc' = [pc EXCEPT ![s] = "idle"]
    /\ req' = [req EXCEPT ![s] = NoReq]
    /\ resp' = [resp EXCEPT ![s] = NoResp]
    /\ sel' = [sel EXCEPT ![s] = <<>>]
    /\ UNCHANGED <<rows, seq, tbl, nullOpen, lock>>
    /\ UNCHANGED catVars

GetByKey(s) ==
    /\ pc[s] = "pending" /\ Found(s) /\ req[s].op = "get"
    /\ Done(s, getByKey(rows, tbl, req[s]))
    /\ UNCHANGED <<rows, seq, tbl, nullOpen, req, lock, sel>>

ListUrl(s) ==
    /\ pc[s] = "pending" /\ Found(s) /\ req[s].op = "list"
    /\ Done(s, listRows(rows, tbl, buildListSQL(tbl, req[s].params, req[s].user)))
    /\ UNCHANGED <<rows, seq, tbl, nullOpen, req, lock, sel>>

ListBody(s) ==
    /\ pc[s] = "pending" /\ Found(s) /\ req[s].op = "query"
    /\ Done(s, IF ~bodyQuerySchema(req[s].opts) THEN Fail("VALIDATION_ERROR")
               ELSE listRows(rows, tbl,
                             buildBodyListSQL(tbl,
                                 BodyQuery(req[s].opts.select, req[s].where,
                                           req[s].opts.order, req[s].opts.group,
                                           req[s].opts.pageNo, req[s].opts.pageSize),
                                 req[s].user)))
    /\ UNCHANGED <<rows, seq, tbl, nullOpen, req, lock, sel>>

DeleteByKey(s) ==
    /\ pc[s] = "pending" /\ Found(s) /\ req[s].op = "deleteByKey"
    /\ TxFree
    /\ LET out == deleteByKey(rows, tbl, req[s])
       IN  rows' = out.db /\ Done(s, out.resp)
    /\ UNCHANGED <<seq, tbl, nullOpen, req, lock, sel>>

(* a handler that answers without running the statement *)
RunDirect_NotRun(s, res) ==
    /\ rows' = rows
    /\ Done(s, Resp("OK", {}, <<>>, <<>>, <<>>))
    /\ UNCHANGED <<lock, sel>>

(* a table without primary key: the statement runs outside any transaction *)
RunDirect(s, res) ==
    /\ rows' = res.db
    /\ Done(s, IF res.err THEN Fail("SYS_ERROR") ELSE Resp("OK", {}, <<>>, <<>>, <<>>))
    /\ UNCHANGED <<lock, sel>>

(* the transaction has begun and its SELECT has returned res *)
Selected(s, res) ==
    IF res.err
    THEN Done(s, Fail("SYS_ERROR")) /\ UNCHANGED <<rows, lock, sel>>
    ELSE /\ pc' = [pc EXCEPT ![s] = "selected"]
         /\ sel' = [sel EXCEPT ![s] = SortedIds(res.rows)]
         /\ lock' = s
         /\ UNCHANGED <<rows, resp>>
         /\ UNCHANGED catVars

(* the transaction's mutation has returned res; commit, or roll back on error *)
Committed(s, res, r) ==
    /\ rows' = res.db
    /\ Done(s, IF res.err THEN Fail("SYS_ERROR") ELSE r)
    /\ lock' = 0

(* transactionalDelete up to its SELECT; a request that fails to       *)
(* compile, and a table without primary key, end here.                 *)
DeleteBegin(s) ==
    /\ pc[s] = "pending" /\ Found(s) /\ req[s].op \in {"delete", "deleteBody"}
    /\ TxFree
    /\ LET begin(stmt) ==
               IF stmt.err # ""
               THEN Done(s, Fail(stmt.err)) /\ UNCHANGED <<rows, lock, sel>>
               ELSE IF tbl.pk = NOPK
               THEN RunDirect(s, DbDelete(rows, stmt.sql, stmt.values))
               ELSE Selected(s, DbSelect(rows, selectSqlOf(stmt.sql, tbl), stmt.values))
       IN  begin(deleteStmt(tbl, req[s]))
    /\ UNCHANGED <<seq, tbl, nullOpen, req>>

(* transactionalDelete: the DELETE and the commit *)
DeleteCommit(s) ==
    /\ pc[s] = "selected" /\ req[s].op \in {"delete", "deleteBody"}
    /\ lock = s
    /\ LET commit(stmt) ==
               Committed(s, DbDelete(rows, stmt.sql, stmt.values),
                         Resp("OK", {}, <<>>, <<>>, sel[s]))
       IN  commit(deleteStmt(tbl, req[s]))
    /\ UNCHANGED <<seq, tbl, nullOpen, req, sel>>

(* POST /api/update up to the SELECT of its transaction *)
UpdateBegin(s) ==
    /\ pc[s] = "pending" /\ Found(s) /\ req[s].op = "update"
    /\ TxFree
    /\ LET begin(stmt) ==
               IF stmt.err # ""
               THEN Done(s, Fail(stmt.err)) /\ UNCHANGED <<rows, lock, sel>>
               ELSE IF tbl.pk = NOPK
               THEN RunDirect(s, DbUpdate(rows, stmt.updateSql, stmt.updateValues))
               ELSE Selected(s, DbSelect(rows, stmt.selectSql, stmt.selectValues))
       IN  begin(updateStmt(tbl, req[s]))
    /\ UNCHANGED <<seq, tbl, nullOpen, req>>

(* POST /api/update: the UPDATE, when the SELECT found rows, and the commit *)
UpdateCommit(s) ==
    /\ pc[s] = "selected" /\ req[s].op = "update"
    /\ lock = s
    /\ LET commit(stmt) ==
               Committed(s, IF Len(sel[s]) > 0
                            THEN DbUpdate(rows, stmt.updateSql, stmt.updateValues)
                            ELSE [err |-> FALSE, db |-> rows, hit |-> {}],
                         Resp("OK", {}, <<>>, sel[s], <<>>))
       IN  commit(updateStmt(tbl, req[s]))
    /\ UNCHANGED <<seq, tbl, nullOpen, req, sel>>

Save(s, st) ==
    /\ rows' = st.db
    /\ seq' = st.seq
    /\ Done(s, SaveResp(st))
    /\ UNCHANGED <<tbl, nullOpen, req, lock, sel>>

Insert(s) ==
    /\ pc[s] = "pending" /\ Found(s) /\ req[s].op = "insert"
    /\ TxFree
    /\ Save(s, postSave(rows, seq, tbl, req[s]))

Upsert(s) ==
    /\ pc[s] = "pending" /\ Found(s) /\ req[s].op = "upsert"
    /\ TxFree
    /\ Save(s, putSave(rows, seq, tbl, req[s]))

StrictUpdate(s) ==
    /\ pc[s] = "pending" /\ Found(s) /\ req[s].op = "patch"
    /\ TxFree
    /\ Save(s, patchSave(rows, seq, tbl, req[s]))

MetaOps == {"meta", "metaByName"}

(* the answer of a route whose requireTable throws code: the route's  *)
(* validator runs before the handler and answers first                 *)
Refused(s, code) ==
    /\ pc[s] = "pending" /\ requireTable(tbl.name) = code /\ req[s].op \notin MetaOps
    /\ Done(s, IF zValidator(req[s]) THEN Fail(code) ELSE Fail("VALIDATION_ERROR"))
    /\ UNCHANGED <<rows, seq, tbl, nullOpen, req, lock, sel>>

(* requireTable throws: the cache does not hold the table *)
NotFound(s) == Refused(s, "NOT_FOUND")

(* requireTable throws: the request names the auth table *)
Forbidden(s) == Refused(s, "FORBIDDEN")

(* getTablesMeta that lists every table of the cache *)
getTablesMeta_All(T) == T

(* getTablesMeta and getTableMetaByName: the names whose metadata they *)
(* return                                                              *)
getTablesMeta(T) == {n \in T : n # authTable}
getTableMetaByName(T, name) ==
    IF name = authTable THEN {} ELSE IF name \in T THEN {name} ELSE {}

(* GET /api/meta/tables: the names the cache holds *)
MetaTables(s) ==
    /\ pc[s] = "pending" /\ req[s].op = "meta"
    /\ Done(s, [Resp("OK", {}, <<>>, <<>>, <<>>) EXCEPT !.catalog = getTablesMeta(tables)])
    /\ UNCHANGED <<rows, seq, tbl, nullOpen, req, lock, sel>>

(* GET /api/meta/tables/:name *)
MetaByName(s) ==
    /\ pc[s] = "pending" /\ req[s].op = "metaByName"
    /\ Done(s, [Resp("OK", {}, <<>>, <<>>, <<>>)
                   EXCEPT !.catalog = getTableMetaByName(tables, tbl.name)])
    /\ UNCHANGED <<rows, seq, tbl, nullOpen, req, lock, sel>>

Handle(s) ==
    \/ GetByKey(s) \/ ListUrl(s) \/ ListBody(s) \/ DeleteByKey(s)
    \/ DeleteBegin(s) \/ DeleteCommit(s) \/ UpdateBegin(s) \/ UpdateCommit(s)
    \/ Insert(s) \/ Upsert(s) \/ StrictUpdate(s)

(* syncTablesMeta in progress: where it stands and the names still to load *)
Syncing(at, names) == [pc |-> at, names |-> names]
NoSync == Syncing("idle", <<>>)

Init ==
    /\ rows = {}
    /\ seq = 0
    /\ tbl = ProductsMeta
    /\ nullOpen = FALSE
    /\ pc = [s \in Slots |-> "idle"]
    /\ req = [s \in Slots |-> NoReq]
    /\ resp = [s \in Slots |-> NoResp]
    /\ lock = 0
    /\ sel = [s \in Slots |-> <<>>]
    /\ schema = {ProductsMeta.name}
    /\ tables = schema
    /\ sync = NoSync
    /\ ddl = ProductsDdl /\ isSqlite = TRUE

(* one client: requests are served one after the other *)
Next ==
    \/ \E r \in Requests : Receive(1, r)
    \/ Handle(1)
    \/ Reply(1)

Spec == Init /\ [][Next]_vars

(* ------------------------------------------------------------------ *)
(* Two clients whose requests overlap in time                          *)
(* ------------------------------------------------------------------ *)
NoKey == Item(ABSENT, ABSENT, ABSENT)

(* writers over overlapping conditions; keys come from AUTOINCREMENT   *)
(* only, so a key that was deleted is never created again              *)
ConcRequests(u) ==
    { Req("deleteByKey", u, <<"1">>, <<>>, JUndef, <<>>, NoItem),
      Req("delete", u, <<>>, <<P("stock", <<"ge", ".", "0">>)>>, JUndef, <<>>, NoItem),
      Req("delete", u, <<>>, <<P("id", <<"in", "(", "1", ",", Digit(MaxPk), ")">>)>>,
          JUndef, <<>>, NoItem),
      Req("deleteBody", u, <<>>, <<>>, T2("stock", JNum(MaxVal)), <<>>, NoItem),
      Req("update", u, <<>>, <<>>, T3("stock", "ge", JNum(0)), <<>>,
          Item(ABSENT, MaxVal, ABSENT)),
      Req("insert", u, <<>>, <<>>, JUndef, <<NoKey>>, NoItem),
      Req("upsert", u, <<>>, <<>>, JUndef, <<Item(ABSENT, MaxVal, ABSENT)>>, NoItem),
      Req("patch", u, <<>>, <<>>, JUndef, <<Item(1, 0, ABSENT)>>, NoItem) }

Write(s) ==
    \/ DeleteByKey(s)
    \/ DeleteBegin(s) \/ DeleteCommit(s) \/ UpdateBegin(s) \/ UpdateCommit(s)
    \/ Insert(s) \/ Upsert(s) \/ StrictUpdate(s)

NextConc ==
    \/ \E r \in ConcRequests(1) : Receive(1, r)
    \/ \E u \in Users : \E r \in ConcRequests(u) : Receive(2, r)
    \/ \E s \in Slots : Write(s)
    \/ \E s \in Slots : Reply(s)

SpecConc == Init /\ [][NextConc]_vars

(* ------------------------------------------------------------------ *)
(* Two upserts of one key, one after the other                         *)
(* ------------------------------------------------------------------ *)
KeyedUpserts(u, stocks) ==
    {Req("upsert", u, <<>>, <<>>, JUndef, <<Item(k, st, ABSENT)>>, NoItem) :
        k \in PKs, st \in stocks}

(* slot 1 carries the first upsert, still unanswered while slot 2 carries *)
(* the second one                                                        *)
NextTwice ==
    \/ \E u \in Users : \E r \in KeyedUpserts(u, {0, MaxVal}) : Receive(1, r)
    \/ \E r \in KeyedUpserts(1, {0, ABSENT}) : Receive(2, r)
    \/ \E s \in Slots : Upsert(s)
    \/ \E s \in Slots : Reply(s)

SpecTwice == Init /\ [][NextTwice]_vars

(* ------------------------------------------------------------------ *)
(* One client that lists, deletes and updates over a filled table      *)
(* ------------------------------------------------------------------ *)
(* the tables the service can hold: keys within PKs, every row owned   *)
Cells == {<<ABSENT, ABSENT>>} \cup (Vals \X Users)
TableOf(f) ==
    {[id |-> k, stock |-> f[k][1], owner |-> f[k][2]] : k \in {x \in PKs : f[x][1] # ABSENT}}
TableStates == {TableOf(f) : f \in [PKs -> Cells]}
MaxId(rs) ==
    IF rs = {} THEN 0
    ELSE CHOOSE k \in {r.id : r \in rs} : \A r \in rs : r.id <= k

Url(u, ps) == Req("list", u, <<>>, ps, JUndef, <<>>, NoItem)
UrlDelete(u, ps) == Req("delete", u, <<>>, ps, JUndef, <<>>, NoItem)
BodyDelete(u, w) == Req("deleteBody", u, <<>>, <<>>, w, <<>>, NoItem)
BodyUpdate(u, w, st) == Req("update", u, <<>>, <<>>, w, <<>>, st)
Select(items) == Opts(items, <<>>, <<>>, ABSENT, ABSENT)
Order(items) == Opts(<<>>, items, <<>>, ABSENT, ABSENT)
Group(sl, names) == Opts(sl, <<>>, names, ABSENT, ABSENT)

(* requests that name "bogus", which is not a column of the table *)
UnknownInCondition(u) ==
    { Url(u, <<P("bogus", <<"1">>)>>),
      Url(u, <<P("or", <<"bogus", ".", "eq", ".", "1", ",", "stock", ".", "ge", ".", "0">>)>>),
      ReqQuery(u, T2("bogus", JNum(1)), NoOpts),
      UrlDelete(u, <<P("bogus", <<"1">>)>>),
      UrlDelete(u, <<P("or", <<"bogus", ".", "eq", ".", "1", ",", "stock", ".", "ge", ".", "0">>)>>),
      BodyDelete(u, T2("bogus", JNum(1))),
      BodyUpdate(u, T2("bogus", JNum(1)), Item(ABSENT, MaxVal, ABSENT)) }
UnknownInSelect(u) ==
    { Url(u, <<P("select", <<"id", ",", "bogus">>)>>),
      ReqQuery(u, JUndef, Select(<<SelStr(<<"bogus">>)>>)),
      ReqQuery(u, JUndef, Select(<<SelObj("bogus", "", "")>>)) }
UnknownInOrder(u) ==
    { Url(u, <<P("order", <<"desc", ".", "bogus">>)>>),
      ReqQuery(u, JUndef, Order(<<OrdStr(<<"bogus">>)>>)),
      ReqQuery(u, JUndef, Order(<<OrdObj("bogus", "desc")>>)) }
UnknownInGroup(u) ==
    { Url(u, <<P("select", <<"count", ":", "id">>), P("group", <<"bogus">>)>>),
      ReqQuery(u, JUndef, Group(<<SelStr(<<"count", ":", "id">>)>>, <<"bogus">>)) }
UnknownNames(u) ==
    UnknownInCondition(u) \cup UnknownInSelect(u) \cup UnknownInOrder(u) \cup UnknownInGroup(u)

(* one condition written in both grammars *)
Both(ps, w) == [body |-> w, url |-> ps]
Dots == <<".", ".", ".">>

SameCondition(u) ==
    { Both(<<P("stock", <<Digit(MaxVal)>>)>>, T2("stock", JNum(MaxVal))),
      Both(<<P("stock", <<"gt", ".", "0">>)>>, T3("stock", "gt", JNum(0))),
      Both(<<P("id", <<"in", "(", "1", ",", Digit(MaxPk), ")">>)>>,
           T3("id", "in", JArr(<<JNum(1), JNum(MaxPk)>>))),
      Both(<<P("id", <<"nin", "(", "1", ")">>)>>, T3("id", "nin", JArr(<<JNum(1)>>))),
      Both(<<P("id", <<"in", "(", "2">> \o Dots \o <<Digit(MaxPk), ")">>)>>,
           T3("id", "between", JArr(<<JNum(2), JNum(MaxPk)>>))),
      Both(<<P("stock", <<"nis", ".">>)>>, JObj("stock", "nis", JUndef)),
      Both(<<P("owner", <<Digit(Other(u))>>)>>, T2("owner", JNum(Other(u)))),
      Both(<<P("stock", <<"ge", ".", "0">>),
             P("or", <<"id", ".", "eq", ".", "1", ",", "stock", ".", "ne", ".", "0">>)>>,
           JArr(<<T3("stock", "ge", JNum(0)),
                  JGrp("or", <<T3("id", "eq", JNum(1)), T3("stock", "ne", JNum(0))>>)>>)),
      Both(<<P("bogus", <<"1">>)>>, T2("bogus", JNum(1))),
      Both(<<P("stock", <<"zz", ".", "1">>)>>, T3("stock", "zz", JNum(1))) }

(* conditions whose operator token "zz" is not an operator *)
UnknownOperator(u) ==
    { Url(u, <<P("stock", <<"zz", ".", "1">>)>>),
      Url(u, <<P("or", <<"stock", ".", "zz", ".", "1", ",", "id", ".", "eq", ".", "1">>)>>),
      UrlDelete(u, <<P("stock", <<"zz", ".", "1">>)>>),
      ReqQuery(u, T3("stock", "zz", JNum(1)), NoOpts),
      ReqQuery(u, JObj("stock", "zz", JNum(1)), NoOpts),
      BodyDelete(u, T3("stock", "zz", JNum(1))),
      BodyUpdate(u, JObj("stock", "zz", JNum(1)), Item(ABSENT, MaxVal, ABSENT)) }

(* ranges with one bound and with three *)
BadRange(u) ==
    { Url(u, <<P("id", <<"in", "(", "1">> \o Dots \o <<")">>)>>),
      Url(u, <<P("id", <<"in", "(">> \o Dots \o <<"2", ")">>)>>),
      Url(u, <<P("id", <<"in", "(", "1">> \o Dots \o <<"2">> \o Dots \o <<"3", ")">>)>>),
      Url(u, <<P("or", <<"id", ".", "in", ".", "(", "1">> \o Dots \o <<"2">> \o Dots
                       \o <<"3", ")", ",", "stock", ".", "eq", ".", "0">>)>>),
      UrlDelete(u, <<P("id", <<"in", "(", "1">> \o Dots \o <<"2">> \o Dots \o <<"3", ")">>)>>),
      ReqQuery(u, T3("id", "between", JArr(<<JNum(1)>>)), NoOpts),
      ReqQuery(u, T3("id", "between", JArr(<<JNum(1), JNum(2), JNum(3)>>)), NoOpts),
      ReqQuery(u, JObj("id", "bt", JNum(1)), NoOpts),
      BodyDelete(u, T3("id", "between", JArr(<<JNum(1), JNum(2), JNum(3)>>))) }

(* paged lists ordered by the primary key: every page up to one past   *)
(* the last; pages of one row and pages that take the whole table      *)
PageNos == 1 .. MaxPk + 1
PageSizes == {1, MaxPk}
Filters == {"all", "stocked"}
UrlFilter(c) == IF c = "all" THEN <<>> ELSE <<P("stock", <<"ge", ".", "1">>)>>
BodyFilter(c) == IF c = "all" THEN JUndef ELSE T3("stock", "ge", JNum(1))

(* textual, ascending / structured, descending *)
UrlPage(u, c, no, size) ==
    Url(u, UrlFilter(c) \o <<P("order", <<"asc", ".", "id">>),
                              P("pageNo", <<Digit(no)>>), P("pageSize", <<Digit(size)>>)>>)
BodyPage(u, c, no, size) ==
    ReqQuery(u, BodyFilter(c), Opts(<<>>, <<OrdObj("id", "desc")>>, <<>>, no, size))

PagedByKey(u) ==
    {UrlPage(u, c, no, size) : c \in Filters, no \in PageNos, size \in PageSizes}
    \cup {BodyPage(u, c, no, size) : c \in Filters, no \in PageNos, size \in PageSizes}

QueryRequests(u) ==
    UnknownNames(u) \cup UnknownOperator(u) \cup BadRange(u)
    \cup {Url(u, b.url) : b \in SameCondition(u)}
    \cup {UrlDelete(u, b.url) : b \in SameCondition(u)}
    \cup {BodyUpdate(u, T2("stock", JNum(0)), Item(ABSENT, MaxVal, ABSENT))}

InitQuery ==
    /\ rows \in TableStates
    /\ seq = MaxId(rows)
    /\ tbl = ProductsMeta
    /\ nullOpen = FALSE
    /\ pc = [s \in Slots |-> "idle"]
    /\ req = [s \in Slots |-> NoReq]
    /\ resp = [s \in Slots |-> NoResp]
    /\ lock = 0
    /\ sel = [s \in Slots |-> <<>>]
    /\ schema = {ProductsMeta.name}
    /\ tables = schema
    /\ sync = NoSync
    /\ ddl = ProductsDdl /\ isSqlite = TRUE

NextQuery ==
    \/ \E u \in Users : \E r \in QueryRequests(u) : Receive(1, r)
    \/ ListUrl(1) \/ ListBody(1)
    \/ DeleteBegin(1) \/ DeleteCommit(1) \/ UpdateBegin(1) \/ UpdateCommit(1)
    \/ Reply(1)

SpecQuery == InitQuery /\ [][NextQuery]_vars

(* paged lists of the rows per stock, with and without an ordering *)
Orderings == {"none", "desc"}
UrlGrouped(u, c, o, no, size) ==
    Url(u, UrlFilter(c)
           \o <<P("select", <<"stock", ",", "count", ":", "id">>), P("group", <<"stock">>)>>
           \o (IF o = "none" THEN <<>> ELSE <<P("order", <<"desc", ".", "stock">>)>>)
           \o <<P("pageNo", <<Digit(no)>>), P("pageSize", <<Digit(size)>>)>>)
BodyGrouped(u, c, o, no, size) ==
    ReqQuery(u, BodyFilter(c),
             Opts(<<SelStr(<<"stock">>), SelObj("id", "", "count")>>,
                  IF o = "none" THEN <<>> ELSE <<OrdStr(<<"desc", ".", "stock">>)>>,
                  <<"stock">>, no, size))

PagedByGroup(u) ==
    {UrlGrouped(u, c, o, no, size) :
        c \in Filters, o \in Orderings, no \in PageNos, size \in PageSizes}
    \cup {BodyGrouped(u, "all", o, no, MaxPk) : o \in Orderings, no \in PageNos}

(* one client that lists page by page *)
PagedRequests(u) == PagedByKey(u) \cup PagedByGroup(u)

NextPaged ==
    \/ \E u \in Users : \E r \in PagedRequests(u) : Receive(1, r)
    \/ ListUrl(1) \/ ListBody(1)
    \/ Reply(1)

SpecPaged == InitQuery /\ [][NextPaged]_vars

(* lists whose page parameters are absent, zero, negative, beyond the  *)
(* cap or not a number; "" and ABSENT stand for a parameter left out   *)
PageNoStrs == {"", "0", "1", "2", "-5"}
PageSizeStrs == {"", "0", "1", "2", "1000", "1001", "2000", "-5", "abc"}
BodyPageNos == {ABSENT, 0, 1, 2, -5}
BodyPageSizes == {ABSENT, 0, 1, 2, 1000, 1001, -5}
UrlLimit(u, no, size) ==
    Url(u, <<P("order", <<"asc", ".", "id">>)>>
           \o (IF no = "" THEN <<>> ELSE <<P("pageNo", <<no>>)>>)
           \o (IF size = "" THEN <<>> ELSE <<P("pageSize", <<size>>)>>))
BodyLimit(u, no, size) ==
    ReqQuery(u, JUndef, Opts(<<>>, <<OrdObj("id", "asc")>>, <<>>, no, size))
LimitRequests(u) ==
    {UrlLimit(u, no, size) : no \in PageNoStrs, size \in PageSizeStrs}
    \cup {BodyLimit(u, no, size) : no \in BodyPageNos, size \in BodyPageSizes}

NextLimit ==
    \/ \E u \in Users : \E r \in LimitRequests(u) : Receive(1, r)
    \/ ListUrl(1) \/ ListBody(1)
    \/ Reply(1)

SpecLimit == InitQuery /\ [][NextLimit]_vars

(* client.ts: agg(fn, field, alias) with alias "" for an alias left    *)
(* out, a select string, and the body items selectToBody makes of them *)
agg(fn, field, alias) ==
    [fn |-> fn, alias |-> IF alias = "" THEN fn \o ":" \o field ELSE alias,
     j |-> "obj", field |-> field, str |-> <<>>]
selString(str) == [fn |-> "", alias |-> "", j |-> "str", field |-> "", str |-> str]
selectToBody(items) ==
    [i \in 1 .. Len(items) |->
        IF items[i].j = "str" THEN SelStr(items[i].str)
        ELSE IF items[i].fn # "" /\ items[i].alias # ""
        THEN SelObj(items[i].field, items[i].alias, items[i].fn)
        ELSE IF items[i].fn # "" THEN SelObj(items[i].field, "", items[i].fn)
        ELSE IF items[i].alias # "" THEN SelObj(items[i].field, items[i].alias, "")
        ELSE SelStr(<<items[i].field>>)]
(* QueryBuilder: select(...items) sent as POST /api/query/:table *)
ClientQuery(u, items) ==
    ReqQuery(u, JUndef, Opts(selectToBody(items), <<>>, <<>>, ABSENT, ABSENT))

(* an aggregate without an alias, written as fn:field in the URL, as   *)
(* fn:field in a body string, and built by the client with agg         *)
AggNames == {"count", "max", "min", "sum", "MAX"}
AggFields == {"id", "stock"}
UrlAgg(u, fn, field) == Url(u, <<P("select", <<fn, ":", field>>)>>)
BodyAgg(u, fn, field) == ClientQuery(u, <<selString(<<fn, ":", field>>)>>)
ClientAgg(u, fn, field) == ClientQuery(u, <<agg(fn, field, "")>>)

(* select tokens of two and three parts, with and without an aggregate *)
(* name in front                                                       *)
ColonTokens ==
    { <<"stock", ":", "s">>, <<"id", ":", "stock">>, <<"max", ":", "stock">>,
      <<"max", ":", "stock", ":", "m">>, <<"abs", ":", "stock", ":", "s">>,
      <<"stock", ":", "id", ":", "s">> }
UrlToken(u, t) == Url(u, <<P("select", t)>>)
BodyToken(u, t) == ClientQuery(u, <<selString(t)>>)

SelectRequests(u) ==
    {UrlAgg(u, fn, f) : fn \in AggNames, f \in AggFields}
    \cup {BodyAgg(u, fn, f) : fn \in AggNames, f \in AggFields}
    \cup {ClientAgg(u, fn, f) : fn \in AggNames, f \in AggFields}
    \cup {UrlToken(u, t) : t \in ColonTokens}
    \cup {BodyToken(u, t) : t \in ColonTokens}

NextSelect ==
    \/ \E u \in Users : \E r \in SelectRequests(u) : Receive(1, r)
    \/ ListUrl(1) \/ ListBody(1)
    \/ Reply(1)

SpecSelect == InitQuery /\ [][NextSelect]_vars

(* ------------------------------------------------------------------ *)
(* One client whose requests name the auth table                       *)
(* ------------------------------------------------------------------ *)
(* one request per route, bodies the validators pass and bodies they   *)
(* reject                                                              *)
AuthRequests(u) ==
    { Req("get", u, <<"1">>, <<>>, JUndef, <<>>, NoItem),
      Url(u, <<>>), Url(u, <<P("id", <<"1">>)>>),
      ReqQuery(u, JUndef, NoOpts),
      ReqQuery(u, T2("id", JNum(1)), Opts(<<>>, <<>>, <<>>, 1, 1)),
      ReqQuery(u, JUndef, Opts(<<>>, <<>>, <<>>, 1, 1001)),
      ReqQuery(u, JNum(1), NoOpts),
      Req("deleteByKey", u, <<"1">>, <<>>, JUndef, <<>>, NoItem),
      UrlDelete(u, <<>>), UrlDelete(u, <<P("id", <<"1">>)>>),
      BodyDelete(u, T2("id", JNum(1))), BodyDelete(u, JArr(<<>>)),
      BodyDelete(u, JStr("id")), BodyDelete(u, JUndef),
      BodyUpdate(u, T2("id", JNum(1)), Item(ABSENT, MaxVal, ABSENT)),
      BodyUpdate(u, T2("id", JNum(1)), NoItem),
      BodyUpdate(u, JUndef, Item(ABSENT, MaxVal, ABSENT)),
      Req("meta", u, <<>>, <<>>, JUndef, <<>>, NoItem),
      Req("metaByName", u, <<>>, <<>>, JUndef, <<>>, NoItem) }
    \cup {Req(op, u, <<>>, <<>>, JUndef, b, NoItem) :
              op \in {"insert", "upsert", "patch"},
              b \in {<<Item(1, MaxVal, ABSENT)>>, <<NoItem>>, <<>>}}

(* the requests name the auth table, its rows are in rows (the handlers *)
(* never get to look at their columns); the cache holds the auth table  *)
(* or, while it is being refilled, does not hold it yet                 *)
InitAuth ==
    /\ rows \in TableStates
    /\ seq = MaxId(rows)
    /\ tbl = UsersMeta
    /\ nullOpen = FALSE
    /\ pc = [s \in Slots |-> "idle"]
    /\ req = [s \in Slots |-> NoReq]
    /\ resp = [s \in Slots |-> NoResp]
    /\ lock = 0
    /\ sel = [s \in Slots |-> <<>>]
    /\ schema = {ProductsMeta.name, authTable}
    /\ tables \in {schema, {ProductsMeta.name}, {}}
    /\ sync = NoSync
    /\ ddl = ProductsDdl /\ isSqlite = TRUE

NextAuth ==
    \/ \E u \in Users : \E r \in AuthRequests(u) : Receive(1, r)
    \/ Forbidden(1) \/ MetaTables(1) \/ MetaByName(1)
    \/ Reply(1)

SpecAuth == InitAuth /\ [][NextAuth]_vars

(* ------------------------------------------------------------------ *)
(* One client whose conditions are nested logic groups                 *)
(* ------------------------------------------------------------------ *)
Logics == {"or", "and"}

(* textual expressions: two comparisons, and the groups one level above *)
(* the expressions of sub                                               *)
UrlLeaves(u) ==
    { <<"owner", ".", "eq", ".", Digit(Other(u))>>, <<"id", ".", "eq", ".", "1">> }
UrlNest(u, sub) ==
    sub \cup {<<lg, ".", "(">> \o a \o <<",">> \o b \o <<")">> :
                 lg \in Logics, a \in UrlLeaves(u), b \in sub}
UrlTrees(u) ==
    {<<P(lg, a \o <<",">> \o b)>> :
        lg \in Logics, a \in UrlLeaves(u), b \in UrlNest(u, UrlNest(u, UrlLeaves(u)))}

(* the same trees in the structured grammar *)
BodyLeaves(u) == { T3("owner", "eq", JNum(Other(u))), T2("id", JNum(1)) }
BodyNest(u, sub) ==
    sub \cup {JGrp(lg, <<a, b>>) : lg \in Logics, a \in BodyLeaves(u), b \in sub}
BodyTrees(u) == BodyNest(u, BodyNest(u, BodyNest(u, BodyLeaves(u))))

WhereRequests(u) ==
    {Url(u, ps) : ps \in UrlTrees(u)} \cup {UrlDelete(u, ps) : ps \in UrlTrees(u)}
    \cup {ReqQuery(u, w, NoOpts) : w \in BodyTrees(u)}
    \cup {BodyDelete(u, w) : w \in BodyTrees(u)}
    \cup {BodyUpdate(u, w, Item(ABSENT, MaxVal, ABSENT)) : w \in BodyTrees(u)}

(* every key is taken and every user owns a row *)
WhereTables ==
    {t \in {TableOf(f) : f \in [PKs -> {<<0, u>> : u \in Users}]} :
        \A u \in Users : \E r \in t : r.owner = u}

InitWhere ==
    /\ rows \in WhereTables
    /\ seq = MaxId(rows)
    /\ tbl = ProductsMeta
    /\ nullOpen = FALSE
    /\ pc = [s \in Slots |-> "idle"]
    /\ req = [s \in Slots |-> NoReq]
    /\ resp = [s \in Slots |-> NoResp]
    /\ lock = 0
    /\ sel = [s \in Slots |-> <<>>]
    /\ schema = {ProductsMeta.name}
    /\ tables = schema
    /\ sync = NoSync
    /\ ddl = ProductsDdl /\ isSqlite = TRUE

NextWhere ==
    \/ \E u \in Users : \E r \in WhereRequests(u) : Receive(1, r)
    \/ ListUrl(1) \/ ListBody(1)
    \/ DeleteBegin(1) \/ DeleteCommit(1) \/ UpdateBegin(1) \/ UpdateCommit(1)
    \/ Reply(1)

SpecWhere == InitWhere /\ [][NextWhere]_vars

(* ------------------------------------------------------------------ *)
(* One client, rows without owner, null-open mode on or off            *)
(* ------------------------------------------------------------------ *)
(* every key is taken, by a user or by no one, and some row has no owner *)
NullTables ==
    {t \in {TableOf(f) : f \in [PKs -> {<<0, o>> : o \in Users \cup {NULL}}]} :
        \E r \in t : r.owner = NULL}

EveryRowUrl == <<P("id", <<"ge", ".", "1">>)>>
EveryRowBody == T3("id", "ge", JNum(1))

NullRequests(u) ==
    {Req("get", u, <<Digit(k)>>, <<>>, JUndef, <<>>, NoItem) : k \in PKs}
    \cup {Req("deleteByKey", u, <<Digit(k)>>, <<>>, JUndef, <<>>, NoItem) : k \in PKs}
    \cup {Req(op, u, <<>>, <<>>, JUndef, <<Item(k, MaxVal, ABSENT)>>, NoItem) :
              op \in {"upsert", "patch"}, k \in PKs}
    \cup { Url(u, <<>>), ReqQuery(u, JUndef, NoOpts),
           UrlDelete(u, EveryRowUrl), BodyDelete(u, EveryRowBody),
           BodyUpdate(u, EveryRowBody, Item(ABSENT, MaxVal, ABSENT)) }

InitNull ==
    /\ rows \in NullTables
    /\ seq = MaxId(rows)
    /\ tbl = ProductsMeta
    /\ nullOpen \in BOOLEAN
    /\ pc = [s \in Slots |-> "idle"]
    /\ req = [s \in Slots |-> NoReq]
    /\ resp = [s \in Slots |-> NoResp]
    /\ lock = 0
    /\ sel = [s \in Slots |-> <<>>]
    /\ schema = {ProductsMeta.name}
    /\ tables = schema
    /\ sync = NoSync
    /\ ddl = ProductsDdl /\ isSqlite = TRUE

NextNull ==
    \/ \E u \in Users : \E r \in NullRequests(u) : Receive(1, r)
    \/ GetByKey(1) \/ ListUrl(1) \/ ListBody(1) \/ DeleteByKey(1)
    \/ DeleteBegin(1) \/ DeleteCommit(1) \/ UpdateBegin(1) \/ UpdateCommit(1)
    \/ Upsert(1) \/ StrictUpdate(1)
    \/ Reply(1)

SpecNull == InitNull /\ [][NextNull]_vars

(* ------------------------------------------------------------------ *)
(* One client, a table without primary key                             *)
(* ------------------------------------------------------------------ *)
KeylessMeta == [ProductsMeta EXCEPT !.pk = NOPK]

(* conditions in both grammars *)
Matchers == {"first", "stocked", "every"}
UrlMatcher(c) ==
    IF c = "first" THEN <<P("id", <<"1">>)>>
    ELSE IF c = "stocked" THEN <<P("stock", <<"ge", ".", "1">>)>>
    ELSE <<P("or", <<"id", ".", "ge", ".", "1", ",", "stock", ".", "is", ".">>)>>
BodyMatcher(c) ==
    IF c = "first" THEN T2("id", JNum(1))
    ELSE IF c = "stocked" THEN T3("stock", "ge", JNum(1))
    ELSE JGrp("or", <<T3("id", "ge", JNum(1)), JObj("stock", "is", JUndef)>>)

KeylessRequests(u) ==
    {UrlDelete(u, UrlMatcher(c)) : c \in Matchers}
    \cup {BodyDelete(u, BodyMatcher(c)) : c \in Matchers}
    \cup {BodyUpdate(u, BodyMatcher(c), Item(ABSENT, v, ABSENT)) : c \in Matchers, v \in Vals}

InitKeyless ==
    /\ rows \in WhereTables
    /\ seq = MaxId(rows)
    /\ tbl = KeylessMeta
    /\ nullOpen = FALSE
    /\ pc = [s \in Slots |-> "idle"]
    /\ req = [s \in Slots |-> NoReq]
    /\ resp = [s \in Slots |-> NoResp]
    /\ lock = 0
    /\ sel = [s \in Slots |-> <<>>]
    /\ schema = {ProductsMeta.name}
    /\ tables = schema
    /\ sync = NoSync
    /\ ddl = ProductsDdl /\ isSqlite = TRUE

NextKeyless ==
    \/ \E u \in Users : \E r \in KeylessRequests(u) : Receive(1, r)
    \/ DeleteBegin(1) \/ UpdateBegin(1)
    \/ Reply(1)

SpecKeyless == InitKeyless /\ [][NextKeyless]_vars

(* ------------------------------------------------------------------ *)
(* The table is altered in the database and introspected again         *)
(* ------------------------------------------------------------------ *)
(* sequences of distinct names of S *)
DistinctSeqs(S) ==
    UNION {{sq \in [1 .. n -> S] : \A i, m \in 1 .. n : i # m => sq[i] # sq[m]} :
              n \in 0 .. Cardinality(S)}

(* the definitions of the table: at least one column, any key over the columns *)
Ddls ==
    UNION {{Ddl(cols, key) : key \in DistinctSeqs(Range(cols))} :
              cols \in DistinctSeqs(Range(ProductsMeta.cols)) \ {<<>>}}

InitIntrospect ==
    /\ rows = {}
    /\ seq = 0
    /\ ddl = ProductsDdl /\ isSqlite \in BOOLEAN
    /\ tbl = introspect(ProductsMeta.name, ddl, isSqlite)
    /\ nullOpen = FALSE
    /\ pc = [s \in Slots |-> "idle"]
    /\ req = [s \in Slots |-> NoReq]
    /\ resp = [s \in Slots |-> NoResp]
    /\ lock = 0
    /\ sel = [s \in Slots |-> <<>>]
    /\ schema = {ProductsMeta.name}
    /\ tables = schema
    /\ sync = NoSync

(* the table is dropped and created again with another definition *)
AlterTable ==
    /\ \E d \in Ddls \ {ddl} : ddl' = d
    /\ rows' = {} /\ seq' = 0
    /\ UNCHANGED <<tbl, nullOpen, pc, req, resp, lock, sel, tables, schema, sync, isSqlite>>

(* tables.set(n, await introspect(n)) *)
Introspect ==
    /\ tbl' = introspect(tbl.name, ddl, isSqlite)
    /\ tables' = tables \cup {tbl.name}
    /\ UNCHANGED <<rows, seq, nullOpen, pc, req, resp, lock, sel, schema, sync, dbVars>>

NextIntrospect == AlterTable \/ Introspect

SpecIntrospect == InitIntrospect /\ [][NextIntrospect]_vars

(* ------------------------------------------------------------------ *)
(* One client, structured conditions of every shape the schema admits  *)
(* ------------------------------------------------------------------ *)
ShapeWheres ==
    LET byKey == T2("id", JNum(1))
        byText == T2("id", JStr("1"))
        byStock == T3("stock", "ge", JNum(0))
        inKeys == T3("id", "in", JArr(<<JNum(1), JNum(MaxPk)>>))
        object == JObj("stock", "le", JNum(MaxVal))
    IN  { byKey, byText, byStock, inKeys, object,
          JArr(<<>>), JArr(<<byKey>>), JArr(<<byStock, byKey>>), JArr(<<object, inKeys>>),
          JArr(<<JGrp("or", <<byKey, byStock>>), byText>>),
          JGrp("or", <<byKey, byStock>>),
          JGrp("or", <<JArr(<<byStock, byKey>>), inKeys>>),
          JGrp("and", <<JArr(<<byKey>>), object>>),
          JGrp("or", <<JArr(<<>>), byKey>>),
          JGrp("or", <<JGrp("and", <<JArr(<<byStock, byText>>), byKey>>), object>>) }

ShapeRequests(u) ==
    {ReqQuery(u, w, NoOpts) : w \in ShapeWheres}
    \cup {BodyDelete(u, w) : w \in ShapeWheres}
    \cup {BodyUpdate(u, w, Item(ABSENT, MaxVal, ABSENT)) : w \in ShapeWheres}

NextShape ==
    \/ \E u \in Users : \E r \in ShapeRequests(u) : Receive(1, r)
    \/ ListBody(1)
    \/ DeleteBegin(1) \/ DeleteCommit(1) \/ UpdateBegin(1) \/ UpdateCommit(1)
    \/ Reply(1)

SpecShape == InitWhere /\ [][NextShape]_vars

(* ------------------------------------------------------------------ *)
(* Properties                                                          *)
(* ------------------------------------------------------------------ *)
Ids(db) == {r.id : r \in db}
RowOf(db, k) == CHOOSE r \in db : r.id = k

(* slot s takes a step of the request it carries *)
Acts(s) == pc[s] \in {"pending", "selected"} /\ pc'[s] # pc[s]
(* slot s produces the response of the request it carries *)
Answers(s) == pc[s] \in {"pending", "selected"} /\ pc'[s] = "done"

MutOps == {"delete", "deleteBody", "update", "deleteByKey", "upsert", "patch"}

(* C2: with the ownership column and null-open mode off, a conditional *)
(* delete, conditional update, delete-by-key, upsert or strict update  *)
(* issued by B leaves every row owned by another caller present and    *)
(* unchanged, and reports none of their keys as deleted or updated.    *)
C2_ForeignRowsUntouched ==
    [][\A s \in Slots :
          (Acts(s) /\ req[s].op \in MutOps)
          => /\ \A r \in rows : r.owner # req[s].user => r \in rows'
             /\ pc'[s] = "done"
                => \A k \in Range(resp'[s].deleted) \cup Range(resp'[s].updated) :
                       ~ \E r \in rows : r.id = k /\ r.owner # req[s].user]_vars

(* B's conditional update changed rows of B while a row of A that the  *)
(* caller's condition also matches kept another value                  *)
C2_Witness ==
    /\ pc[1] = "done" /\ req[1].op = "update" /\ resp[1].code = "OK"
    /\ Len(resp[1].updated) > 0
    /\ req[1].where = T3("stock", "ge", JNum(0))
    /\ \E r \in rows : r.owner # req[1].user /\ r.stock # req[1].set.stock

CondDeletes == {"delete", "deleteBody"}
CondOps == {"delete", "deleteBody", "update"}

(* the other slot's request is a writer that has not been answered yet *)
WriterWaits(o) ==
    pc[o] = "pending" /\ req[o].op \in {"insert", "upsert", "patch", "deleteByKey"} \cup CondOps

NoCondition(r) ==
    \/ r.op = "delete" /\ r.params = <<>>
    \/ r.op \in {"deleteBody", "update"} /\ r.where \in {JUndef, JArr(<<>>)}

(* C5: a conditional delete or conditional update whose WHERE is empty *)
(* or absent is rejected with VALIDATION_ERROR and changes no row, in  *)
(* the textual and in the structured front end.                        *)
C5_EmptyWhereRejected ==
    [][\A s \in Slots :
          (Acts(s) /\ req[s].op \in CondOps /\ NoCondition(req[s]))
          => /\ rows' = rows
             /\ pc'[s] = "done" => resp'[s].code = "VALIDATION_ERROR"]_vars

(* a textual delete without any condition was answered OK and removed *)
(* a row of the caller                                                *)
C5_Witness ==
    /\ pc[1] = "done" /\ req[1].op = "delete" /\ req[1].params = <<>>
    /\ resp[1].code = "OK" /\ Len(resp[1].deleted) > 0

(* the rows a step added under keys the table did not hold *)
NewRows == {r \in rows' : r.id \notin Ids(rows)}

(* C6: a row that Insert, or the insert branch of Upsert, adds to a    *)
(* table with an ownership column is stored with owner = callerId,     *)
(* whatever the payload supplies for the ownership column.             *)
C6_OwnerForced ==
    [][\A s \in Slots :
          (Answers(s) /\ req[s].op \in {"insert", "upsert"} /\ tbl.hasOwner)
          => \A r \in NewRows : r.owner = req[s].user]_vars

(* an upsert whose payload names another caller as owner has created a *)
(* row, and the row is the caller's                                    *)
C6_Witness ==
    /\ pc[1] = "done" /\ req[1].op = "upsert" /\ resp[1].code = "OK"
    /\ Len(req[1].items) = 1 /\ req[1].items[1].owner = Other(req[1].user)
    /\ Len(resp[1].created) = 1
    /\ RowOf(rows, resp[1].created[1]).owner = req[1].user

(* C7: an Insert with an explicit primary key that the table already   *)
(* holds fails with CONFLICT and adds no row, whichever caller owns    *)
(* the existing row and whichever item of the batch carries the key.   *)
C7_InsertConflict ==
    [][\A s \in Slots :
          (/\ Answers(s) /\ req[s].op = "insert"
           /\ \E i \in 1 .. Len(req[s].items) :
                  req[s].items[i].id # ABSENT /\ req[s].items[i].id \in Ids(rows))
          => resp'[s].code = "CONFLICT" /\ rows' = rows]_vars

(* an insert of a key held by another caller's row was answered with *)
(* SYS_ERROR                                                         *)
C7_Witness ==
    /\ pc[1] = "done" /\ req[1].op = "insert" /\ resp[1].code = "SYS_ERROR"
    /\ \E i \in 1 .. Len(req[1].items) : \E r \in rows :
           r.id = req[1].items[i].id /\ r.owner # req[1].user

(* the tenant filter of caller u, as ownerCond states it *)
Visible(u, k) ==
    \E r \in rows : r.id = k /\ (r.owner = u \/ (nullOpen /\ r.owner = NULL))

(* the update branch of Upsert for item it *)
UpsertUpdates(s, it) ==
    /\ resp'[s].code = "OK"
    /\ resp'[s].updated = <<it.id>> /\ resp'[s].created = <<>>
    /\ rows' = {IF r.id = it.id /\ it.stock # ABSENT
                THEN [r EXCEPT !.stock = it.stock] ELSE r : r \in rows}

(* the insert branch of Upsert for item it *)
UpsertInserts(s, it) ==
    /\ resp'[s].code = "OK"
    /\ resp'[s].updated = <<>> /\ Len(resp'[s].created) = 1
    /\ resp'[s].created[1] \notin Ids(rows)
    /\ it.id # ABSENT => resp'[s].created[1] = it.id
    /\ rows \subseteq rows' /\ Cardinality(rows') = Cardinality(rows) + 1
    /\ Ids(rows') = Ids(rows) \cup {resp'[s].created[1]}

(* every item of the request comes without primary key *)
NoKeys(r) == \A i \in 1 .. Len(r.items) : r.items[i].id = ABSENT

SecondUpsert ==
    /\ Answers(2) /\ req[2].op = "upsert"
    /\ pc[1] = "done" /\ req[1].op = "upsert"
    /\ req[1].user = req[2].user
    /\ req[1].items[1].id = req[2].items[1].id

(* exactly one row has key it.id and it carries the columns it supplies *)
OneRowReflecting(db, it) ==
    /\ Cardinality({r \in db : r.id = it.id}) = 1
    /\ it.stock # ABSENT => RowOf(db, it.id).stock = it.stock

BadItems(r) ==
    {i \in 1 .. Len(r.items) :
        r.items[i].id = ABSENT \/ ~Visible(r.user, r.items[i].id)}
FirstBad(r) == CHOOSE i \in BadItems(r) : \A j \in BadItems(r) : i <= j

(* C10: a strict update fails with VALIDATION_ERROR at an item without *)
(* primary key and with NOT_FOUND at an item whose key has no row      *)
(* under the caller's tenant filter (a row of another caller included);*)
(* otherwise it succeeds and reports the keys in updated.              *)
C10_StrictUpdate ==
    [][\A s \in Slots :
          (Answers(s) /\ req[s].op = "patch" /\ tbl.pk # NOPK)
          => IF BadItems(req[s]) # {}
             THEN resp'[s].code =
                     IF req[s].items[FirstBad(req[s])].id = ABSENT
                     THEN "VALIDATION_ERROR" ELSE "NOT_FOUND"
             ELSE /\ resp'[s].code = "OK"
                  /\ resp'[s].updated =
                        [i \in 1 .. Len(req[s].items) |-> req[s].items[i].id]]_vars

(* a strict update of a key held by another caller's row was answered  *)
(* NOT_FOUND                                                           *)
C10_Witness ==
    /\ pc[1] = "done" /\ req[1].op = "patch" /\ resp[1].code = "NOT_FOUND"
    /\ \E r \in rows : r.id = req[1].items[1].id /\ r.owner # req[1].user

(* ------------------------------------------------------------------ *)
(* Requests served while the table cache is resynchronised             *)
(* ------------------------------------------------------------------ *)
reqVars == <<rows, seq, tbl, nullOpen, pc, req, resp, lock, sel, dbVars>>

(* the orders in which listTables may return the names *)
Orders(S) == {o \in [1 .. Cardinality(S) -> S] : \A n \in S : \E i \in DOMAIN o : o[i] = n}

(* syncTablesMeta: tables.clear(), then listTables() is awaited *)
SyncStart ==
    /\ sync.pc = "idle"
    /\ tables' = {}
    /\ sync' = Syncing("listing", <<>>)
    /\ UNCHANGED schema /\ UNCHANGED reqVars

(* listTables() has returned *)
SyncList ==
    /\ sync.pc = "listing"
    /\ \E o \in Orders(schema) : sync' = Syncing("filling", o)
    /\ UNCHANGED <<tables, schema>> /\ UNCHANGED reqVars

(* tables.set(n, await introspect(n)) for the next name *)
SyncSet ==
    /\ sync.pc = "filling" /\ Len(sync.names) > 0
    /\ tables' = tables \cup {Head(sync.names)}
    /\ sync' = Syncing("filling", Tail(sync.names))
    /\ UNCHANGED schema /\ UNCHANGED reqVars

(* the loop is over: syncTablesMeta returns *)
SyncDone ==
    /\ sync.pc = "filling" /\ Len(sync.names) = 0
    /\ sync' = NoSync
    /\ UNCHANGED <<tables, schema>> /\ UNCHANGED reqVars

(* a table is created in the database behind the service *)
CreateLogs ==
    /\ "logs" \notin schema
    /\ schema' = schema \cup {"logs"}
    /\ UNCHANGED <<tables, sync>> /\ UNCHANGED reqVars

SyncRequests(u) ==
    {Req("get", u, <<Digit(k)>>, <<>>, JUndef, <<>>, NoItem) : k \in PKs}
    \cup {Url(u, <<>>), Req("meta", u, <<>>, <<>>, JUndef, <<>>, NoItem)}

NextSync ==
    \/ \E u \in Users : \E r \in SyncRequests(u) : Receive(1, r)
    \/ GetByKey(1) \/ ListUrl(1) \/ MetaTables(1) \/ NotFound(1)
    \/ Reply(1)
    \/ SyncStart \/ SyncList \/ SyncSet \/ SyncDone
    \/ CreateLogs

SpecSync == InitQuery /\ [][NextSync]_vars

(* ------------------------------------------------------------------ *)
(* C12: while the table cache is resynchronised, a request for a table *)
(* that is in the database before and after is never answered          *)
(* NOT_FOUND, and no reader sees an empty or partial cache: what a     *)
(* reader gets is the whole catalog as it was before or as it is after *)
(* ------------------------------------------------------------------ *)
C12_SyncIsAtomic ==
    [][Answers(1)
         => /\ resp'[1].code # "NOT_FOUND"
            /\ req[1].op = "meta" => resp'[1].catalog \in {{ProductsMeta.name}, schema}]_vars

(* a get by key of the products table, which the database holds all    *)
(* along, is answered NOT_FOUND while the resync is under way          *)
C12_Witness ==
    /\ pc[1] = "done" /\ req[1].op = "get" /\ resp[1].code = "NOT_FOUND"
    /\ ProductsMeta.name \in schema /\ sync.pc # "idle"

(* ------------------------------------------------------------------ *)
(* C11: a request whose condition, select list, ordering or grouping   *)
(* names something that is not a column of the table is answered       *)
(* QUERY_ERROR and leaves the table as it was, in both grammars, for   *)
(* list, conditional delete and conditional update.                    *)
(* ------------------------------------------------------------------ *)
NamesUnknown(r) == r \in UnknownNames(r.user)

C11_UnknownNameRejected ==
    [][(Acts(1) /\ NamesUnknown(req[1]))
         => /\ rows' = rows
            /\ pc'[1] = "done" /\ resp'[1].code = "QUERY_ERROR"]_vars

(* a textual delete by a name that is no column has removed the        *)
(* caller's rows and is answered OK                                    *)
C11_Witness ==
    /\ pc[1] = "done" /\ req[1] = UrlDelete(req[1].user, <<P("bogus", <<"1">>)>>)
    /\ resp[1].code = "OK" /\ Len(resp[1].deleted) > 0

(* ------------------------------------------------------------------ *)
(* C13: for one condition written in both grammars, the textual list   *)
(* and delete select and delete the rows that the structured list and  *)
(* delete select and delete, for every table and caller.               *)
(* ------------------------------------------------------------------ *)
bodyList(u, w) ==
    listRows(rows, tbl, buildBodyListSQL(tbl, BodyQuery(<<>>, w, <<>>, <<>>, ABSENT, ABSENT), u))
bodyDelete(stmt) ==
    IF stmt.err # "" THEN rows ELSE DbDelete(rows, stmt.sql, stmt.values).db

C13_FrontEndsAgree ==
    [][\A u \in Users : \A b \in SameCondition(u) :
          /\ (Answers(1) /\ req[1] = Url(u, b.url)) => resp'[1] = bodyList(u, b.body)
          /\ (Acts(1) /\ req[1] = UrlDelete(u, b.url))
                => \/ pc'[1] = "selected" /\ buildBodyDeleteSQL(tbl, b.body, u).err = ""
                   \/ pc'[1] = "done" /\ rows' = bodyDelete(buildBodyDeleteSQL(tbl, b.body, u))]_vars

(* the textual list by an unknown operator is answered OK where the    *)
(* structured list by the same condition is refused                    *)
C13_Witness ==
    /\ pc[1] = "done" /\ req[1] = Url(req[1].user, <<P("stock", <<"zz", ".", "1">>)>>)
    /\ resp[1].code = "OK"
    /\ bodyList(req[1].user, T3("stock", "zz", JNum(1))).code = "QUERY_ERROR"

(* the conditions of SameCondition that name columns and known operators *)
WellFormed(u) ==
    {b \in SameCondition(u) : bodyList(u, b.body).code = "OK"}

(* on those, the two grammars agree *)
C13_WellFormedAgree ==
    [][\A u \in Users : \A b \in WellFormed(u) :
          /\ (Answers(1) /\ req[1] = Url(u, b.url)) => resp'[1] = bodyList(u, b.body)
          /\ (Acts(1) /\ req[1] = UrlDelete(u, b.url))
                => \/ pc'[1] = "selected"
                   \/ pc'[1] = "done" /\ rows' = bodyDelete(buildBodyDeleteSQL(tbl, b.body, u))]_vars

(* ------------------------------------------------------------------ *)
(* C14: a condition whose operator token is not a known operator is    *)
(* answered QUERY_ERROR by both front ends: textual field=op.value and *)
(* field.op.value, structured tuple and object.                        *)
(* ------------------------------------------------------------------ *)
C14_UnknownOperatorRejected ==
    [][(Acts(1) /\ req[1] \in UnknownOperator(req[1].user))
         => pc'[1] = "done" /\ resp'[1].code = "QUERY_ERROR"]_vars

(* the textual list by stock=zz.1 is answered OK *)
C14_Witness ==
    /\ pc[1] = "done" /\ req[1] = Url(req[1].user, <<P("stock", <<"zz", ".", "1">>)>>)
    /\ resp[1].code = "OK"

(* ------------------------------------------------------------------ *)
(* C15: a range that has not exactly two bounds is answered            *)
(* QUERY_ERROR by both front ends: a textual in(...) with one bound or *)
(* with three or more, a structured between whose value is not an     *)
(* array of two.                                                       *)
(* ------------------------------------------------------------------ *)
C15_BadRangeRejected ==
    [][(Acts(1) /\ req[1] \in BadRange(req[1].user))
         => pc'[1] = "done" /\ resp'[1].code = "QUERY_ERROR"]_vars

(* the textual list by id=in(1...2...3) is answered OK, with rows when *)
(* the caller holds a key between 1 and 3                              *)
C15_Witness ==
    /\ pc[1] = "done"
    /\ req[1] = Url(req[1].user,
                    <<P("id", <<"in", "(", "1">> \o Dots \o <<"2">> \o Dots \o <<"3", ")">>)>>)
    /\ resp[1].code = "OK" /\ resp[1].rows # {}

(* ------------------------------------------------------------------ *)
(* C16: for a fixed table, condition and ordering by the primary key,  *)
(* page no of size n is the no-th run of n rows of the matching rows   *)
(* taken in key order, so that pages 1, 2, ... of size n put together  *)
(* hold every matching row exactly once, in key order.                 *)
(* ------------------------------------------------------------------ *)
Holds(c, r) == c = "all" \/ r.stock >= 1
Reverse(sq) == [i \in 1 .. Len(sq) |-> sq[Len(sq) + 1 - i]]
(* the keys of the caller's rows that satisfy the filter, ascending *)
MatchingKeys(u, c) == SortedIds({r \in rows : r.owner = u /\ Holds(c, r)})
Run(keys, no, size) ==
    SubSeq(keys, (no - 1) * size + 1,
           IF no * size < Len(keys) THEN no * size ELSE Len(keys))
KeysOf(data) == [i \in 1 .. Len(data) |-> Get(data[i], "id")]

MatchingRows(u, c) == {r \in rows : r.owner = u /\ Holds(c, r)}
Stocks(u, c) == {r.stock : r \in MatchingRows(u, c)}

After(sql, kw) ==
    IF \E i \in 1 .. Len(sql) - 1 : sql[i] = Kw(kw)
    THEN sql[(CHOOSE i \in 1 .. Len(sql) - 1 : sql[i] = Kw(kw)) + 1].n
    ELSE ABSENT
Clamp(n, lo, hi) == IF n < lo THEN lo ELSE IF n > hi THEN hi ELSE n

(* what a statement and its response must look like for the page      *)
(* parameters no and size; NaN stands for a value that is no number    *)
Limited(stmt, r, no, size) ==
    IF no = ABSENT \/ size = ABSENT
    THEN /\ After(stmt.sql, "LIMIT") = ABSENT /\ After(stmt.sql, "OFFSET") = ABSENT
         /\ r.total = ABSENT
    ELSE /\ After(stmt.sql, "LIMIT") \in 1 .. 1000
         /\ After(stmt.sql, "OFFSET") >= 0
         /\ size # NaN => After(stmt.sql, "LIMIT") = Clamp(size, 1, 1000)
         /\ (size # NaN /\ no # NaN)
               => After(stmt.sql, "OFFSET")
                     = (Clamp(no, 1, no) - 1) * After(stmt.sql, "LIMIT")
StrArg(a) == IF a = "" THEN ABSENT ELSE NumberOfStr(<<a>>)

(* C18: for every supplied pageNo and pageSize the compiled list       *)
(* statement has LIMIT = min(1000, max(1, pageSize)) and               *)
(* OFFSET = (max(1, pageNo) - 1) * LIMIT, so LIMIT lies in 1 .. 1000   *)
(* and OFFSET is never negative; when pageNo or pageSize is absent the *)
(* statement has no LIMIT and no OFFSET and the response has no total. *)
C18_LimitAndOffset ==
    [][/\ \A u \in Users : \A no \in PageNoStrs : \A size \in PageSizeStrs :
            (Answers(1) /\ req[1] = UrlLimit(u, no, size))
                => Limited(buildListSQL(tbl, req[1].params, u), resp'[1],
                           StrArg(no), StrArg(size))
       /\ \A u \in Users : \A no \in BodyPageNos : \A size \in BodyPageSizes :
            (Answers(1) /\ req[1] = BodyLimit(u, no, size)
                        /\ resp'[1].code # "VALIDATION_ERROR")
                => Limited(buildBodyListSQL(tbl,
                               BodyQuery(<<>>, JUndef, req[1].opts.order, <<>>, no, size), u),
                           resp'[1], no, size)]_vars

(* a list whose pageSize is not a number was compiled to LIMIT NaN and *)
(* failed in the database                                              *)
C18_Witness ==
    /\ pc[1] = "done" /\ req[1] = UrlLimit(req[1].user, "1", "abc")
    /\ After(buildListSQL(tbl, req[1].params, req[1].user).sql, "LIMIT") = NaN
    /\ resp[1].code = "SYS_ERROR"

(* every page parameter that is a number is clamped as stated *)
C18_NumbersClamped ==
    [][\A u \in Users : \A no \in PageNoStrs : \A size \in PageSizeStrs \ {"abc"} :
            (Answers(1) /\ req[1] = UrlLimit(u, no, size))
                => /\ Limited(buildListSQL(tbl, req[1].params, u), resp'[1],
                              StrArg(no), StrArg(size))
                   /\ resp'[1].code = "OK"]_vars

(* the output keys of the lines a list returned *)
KeysIn(data) ==
    UNION {{data[i][m].k : m \in 1 .. Len(data[i])} : i \in 1 .. Len(data)}

(* C19: an aggregate selected without an alias comes back under the    *)
(* key "fn:field", the same key whether it was written as the textual  *)
(* shorthand fn:field in the URL or in a body string, or built with    *)
(* the client's agg(fn, field).                                        *)
C19_AggregateKey ==
    [][\A u \in Users : \A fn \in AggNames : \A f \in AggFields :
          (Answers(1) /\ req[1] \in {UrlAgg(u, fn, f), BodyAgg(u, fn, f), ClientAgg(u, fn, f)})
              => /\ resp'[1].code = "OK"
                 /\ Len(resp'[1].data) = 1
                 /\ KeysIn(resp'[1].data)
                       = KeysIn(listRows(rows, tbl,
                                         buildListSQL(tbl, UrlAgg(u, fn, f).params, u)).data)
                 /\ fn \in AGG_FUNCS => KeysIn(resp'[1].data) = {fn \o ":" \o f}]_vars

(* the client's agg("MAX", "stock") came back under the key MAX:stock, *)
(* which is not the key the shorthand MAX:stock comes back under       *)
C19_Witness ==
    /\ pc[1] = "done" /\ req[1] = ClientAgg(req[1].user, "MAX", "stock")
    /\ resp[1].code = "OK" /\ KeysIn(resp[1].data) = {"MAX:stock"}
    /\ KeysIn(listRows(rows, tbl,
                        buildListSQL(tbl, UrlAgg(req[1].user, "MAX", "stock").params,
                                     req[1].user)).data) = {"max:stock"}

(* with the function name in lower case the three ways give fn:field *)
C19_LowerCaseAgree ==
    [][\A u \in Users : \A fn \in AggNames \cap AGG_FUNCS : \A f \in AggFields :
          (Answers(1) /\ req[1] \in {UrlAgg(u, fn, f), BodyAgg(u, fn, f), ClientAgg(u, fn, f)})
              => /\ resp'[1].code = "OK" /\ Len(resp'[1].data) = 1
                 /\ KeysIn(resp'[1].data) = {fn \o ":" \o f}]_vars

(* the select list of a compiled list statement *)
Columns(stmt) == SubSeq(stmt.sql, 2, FromAt(stmt.sql) - 1)
IsCall(cols) == \E i \in 1 .. Len(cols) : cols[i] = Kw("(")
UrlColumns(u, t) == Columns(buildListSQL(tbl, UrlToken(u, t).params, u))
BodyColumns(u, t) ==
    Columns(buildBodyListSQL(tbl, BodyQuery(BodyToken(u, t).opts.select, JUndef, <<>>, <<>>,
                                            ABSENT, ABSENT), u))

(* C20: a select token of two or three colon-separated parts compiles  *)
(* to an aggregate call only if its first part is one of avg, max,     *)
(* min, count, sum; any other such token compiles to a plain rename of *)
(* a field and never to a function call, and the textual and the       *)
(* structured front end compile it alike.                              *)
C20_OnlyAggregatesAreCalls ==
    [][\A u \in Users : \A t \in ColonTokens :
          (Answers(1) /\ req[1] \in {UrlToken(u, t), BodyToken(u, t)})
              => /\ UrlColumns(u, t) = BodyColumns(u, t)
                 /\ IsCall(UrlColumns(u, t)) => t[1] \in {"avg", "max", "min", "count", "sum"}
                 /\ (Len(t) = 3 /\ t[1] \notin {"avg", "max", "min", "count", "sum"})
                       => UrlColumns(u, t) = <<q(t[1]), Kw("AS"), q(t[3])>>]_vars

(* abs:stock:s was compiled to the call ABS("stock") AS "s" and run *)
C20_Witness ==
    /\ pc[1] = "done" /\ req[1] = UrlToken(req[1].user, <<"abs", ":", "stock", ":", "s">>)
    /\ UrlColumns(req[1].user, <<"abs", ":", "stock", ":", "s">>)
          = <<Kw("ABS"), Kw("("), q("stock"), Kw(")"), Kw("AS"), q("s")>>
    /\ resp[1].code = "OK" /\ Len(resp[1].data) > 0 /\ KeysIn(resp[1].data) = {"s"}

(* two-part tokens are compiled as the claim says *)
C20_TwoPartTokens ==
    [][\A u \in Users : \A t \in {x \in ColonTokens : Len(x) = 3} :
          (Answers(1) /\ req[1] \in {UrlToken(u, t), BodyToken(u, t)})
              => /\ UrlColumns(u, t) = BodyColumns(u, t)
                 /\ IsCall(UrlColumns(u, t)) <=> t[1] \in {"avg", "max", "min", "count", "sum"}]_vars

CrudOps ==
    {"get", "list", "query", "deleteByKey", "delete", "deleteBody", "update",
     "insert", "upsert", "patch"}

UpdateOps == {"upsert", "patch", "update"}

(* the request supplies value v for the stock of the row with key k *)
Supplies(r, k, v) ==
    IF r.op = "update" THEN r.set.stock = v
    ELSE \E i \in 1 .. Len(r.items) : r.items[i].id = k /\ r.items[i].stock = v

(* C22: the update branch of Upsert, StrictUpdate and ConditionalUpdate *)
(* changes only supplied columns that are neither the primary key nor   *)
(* the owner column: every row keeps its key and its owner, a column    *)
(* changes only to the value the request supplies for it, and only in   *)
(* rows of the caller that the request reports as updated.              *)
C22_UpdateFrame ==
    [][(Acts(1) /\ req[1].op \in UpdateOps)
          => \A r \in rows :
                \E r2 \in rows' :
                    /\ r2.id = r.id /\ r2.owner = r.owner
                    /\ r2.stock # r.stock
                          => /\ r.owner = req[1].user
                             /\ Supplies(req[1], r.id, r2.stock)
                             /\ r.id \in Range(resp'[1].updated)]_vars

(* a conditional update whose set names another key and another owner  *)
(* changed the stock of a row of the caller, which kept key and owner   *)
C22_Witness ==
    /\ pc[1] = "done" /\ req[1].op = "update" /\ resp[1].code = "OK"
    /\ req[1].set = Item(MaxPk, MaxVal, Other(req[1].user))
    /\ \E r \in rows : /\ r.id # MaxPk /\ r.id \in Range(resp[1].updated)
                        /\ r.owner = req[1].user /\ r.stock = MaxVal

WhereOps == {"list", "query", "delete", "deleteBody", "update"}

(* the WHERE clause the builders compile for request r, the values of  *)
(* its statement and the number of its first placeholder               *)
CompiledWhere(r) ==
    LET at(w, pad) == [err |-> w.err, where |-> w.where, values |-> pad \o w.values,
                       n |-> Len(pad) + 1]
        es == Keep(Entries(r.set), tbl, TRUE)
    IN  IF r.op \in {"list", "delete"} THEN at(buildWhere(tbl, r.params, r.user, 1), <<>>)
        ELSE IF r.op = "update"
        THEN at(bodyBuildWhere(tbl, r.where, r.user, Len(es) + 1),
                [i \in 1 .. Len(es) |-> es[i].v])
        ELSE at(bodyBuildWhere(tbl, r.where, r.user, 1), <<>>)

(* position i of toks is outside every pair of parentheses *)
TopLevel(toks, i) ==
    Cardinality({m \in 1 .. i - 1 : toks[m] = Kw("(")})
        = Cardinality({m \in 1 .. i - 1 : toks[m] = Kw(")")})

(* WHERE <tenant predicate> {AND <condition>}: no OR outside parentheses *)
TenantFirst(w, user) ==
    LET oc == ownerCond(w.n)
        end == 1 + Len(oc)
    IN  /\ Len(w.where) >= end /\ w.where[1] = Kw("WHERE")
        /\ SubSeq(w.where, 2, end) = oc
        /\ Len(w.values) >= w.n /\ w.values[w.n] = user
        /\ Len(w.where) > end => w.where[end + 1] = Kw("AND")
        /\ \A i \in end + 1 .. Len(w.where) :
               TopLevel(w.where, i) => w.where[i] # Kw("OR")

(* C23: for every condition tree, OR groups nested at any depth in     *)
(* either grammar included, the WHERE compiled for a list, delete or   *)
(* conditional update on an owned table is the conjunction of the      *)
(* tenant predicate, first, and the caller's conditions, so every row  *)
(* it matches satisfies the tenant predicate.                          *)
C23_TenantConjunct ==
    [][(Acts(1) /\ req[1].op \in WhereOps /\ tbl.hasOwner)
          => LET w == CompiledWhere(req[1])
             IN  w.err = ""
                    => /\ TenantFirst(w, req[1].user)
                       /\ \A r \in Matching(rows, w.where, 1, w.values) :
                              r.owner = req[1].user]_vars

(* a structured delete whose condition is an OR group holding an AND   *)
(* group holding an OR group that names the other owner removed rows   *)
(* of the caller while the other owner's row stayed                    *)
C23_Witness ==
    /\ pc[1] = "done" /\ req[1].op = "deleteBody" /\ resp[1].code = "OK"
    /\ Len(resp[1].deleted) > 0
    /\ \E r \in rows : r.owner = Other(req[1].user)
    /\ LET w == req[1].where
           leaf == T3("owner", "eq", JNum(Other(req[1].user)))
       IN  /\ w.j = "grp" /\ w.s = "or" /\ w.a[1] = leaf
           /\ w.a[2].j = "grp" /\ w.a[2].s = "and"
           /\ w.a[2].a[2].j = "grp" /\ w.a[2].a[2].s = "or"
           /\ w.a[2].a[2].a[1] = leaf

ReadOps == {"get", "list", "query"}
DeleteOps == {"deleteByKey", "delete", "deleteBody"}

(* the request's statement addresses row r: by its key, or by a        *)
(* condition that every row satisfies                                  *)
Addressed(rq, r) ==
    IF rq.op \in {"get", "deleteByKey"} THEN r.id = NumberOfStr(rq.pk)
    ELSE IF rq.op \in {"upsert", "patch"} THEN r.id = rq.items[1].id
    ELSE TRUE

(* the answer of slot 1 shows that its statement matched row r *)
MatchedRow(r) ==
    IF req[1].op \in ReadOps THEN [r EXCEPT !.owner = ABSENT] \in resp'[1].rows
    ELSE IF req[1].op \in DeleteOps
    THEN r \notin rows' /\ r.id \in Range(resp'[1].deleted)
    ELSE [r EXCEPT !.stock = MaxVal] \in rows' /\ r.id \in Range(resp'[1].updated)

(* the answer of slot 1 shows that its statement did not match row r *)
UnmatchedRow(r) ==
    IF req[1].op \in ReadOps THEN [r EXCEPT !.owner = ABSENT] \notin resp'[1].rows
    ELSE /\ r \in rows'
         /\ r.id \notin Range(resp'[1].deleted) \cup Range(resp'[1].updated)

(* C24: in null-open mode a row whose owner is NULL is matched by every *)
(* caller's list, get-by-key, delete and update statements, as the      *)
(* caller's own rows are; with null-open mode off no caller's statement *)
(* matches a row whose owner is NULL.                                   *)
C24_NullOpen ==
    [][(Answers(1) /\ req[1].op \in ReadOps \cup DeleteOps \cup UpdateOps)
          => \A r \in rows :
                Addressed(req[1], r)
                   => IF r.owner = req[1].user \/ (nullOpen /\ r.owner = NULL)
                      THEN MatchedRow(r) ELSE UnmatchedRow(r)]_vars

(* in null-open mode a conditional update reported and changed a row    *)
(* that has no owner                                                    *)
C24_Witness ==
    /\ nullOpen /\ pc[1] = "done" /\ req[1].op = "update" /\ resp[1].code = "OK"
    /\ \E r \in rows : /\ r.owner = NULL /\ r.stock = MaxVal
                        /\ r.id \in Range(resp[1].updated)

(* the request is a conditional update whose where is the empty array *)
EmptyWhereUpdate(r) == r.op = "update" /\ r.where = JArr(<<>>)

(* C25: a conditional update (POST /api/update) whose where is an empty *)
(* array is rejected with QUERY_ERROR before any statement is executed, *)
(* so no row is changed.                                                *)
C25_AsStated ==
    [][(Acts(1) /\ EmptyWhereUpdate(req[1]))
          => /\ rows' = rows /\ lock' = lock
             /\ pc'[1] = "done" /\ resp'[1] = Fail("QUERY_ERROR")]_vars

(* C25, amended: the request is rejected before any statement is       *)
(* executed and no row is changed; the code is QUERY_ERROR when the    *)
(* set object has a field and VALIDATION_ERROR when it has none.       *)
C25_EmptyWhere ==
    [][(Acts(1) /\ EmptyWhereUpdate(req[1]))
          => /\ rows' = rows /\ lock' = lock
             /\ pc'[1] = "done"
             /\ resp'[1] = Fail(IF Len(Entries(req[1].set)) = 0
                                 THEN "VALIDATION_ERROR" ELSE "QUERY_ERROR")]_vars

(* an update with where [] and set {} on a table that holds a row of   *)
(* the caller was answered VALIDATION_ERROR                            *)
C25_Witness ==
    /\ pc[1] = "done" /\ EmptyWhereUpdate(req[1]) /\ req[1].set = NoItem
    /\ resp[1] = Fail("VALIDATION_ERROR")
    /\ \E r \in rows : r.owner = req[1].user

(* the condition of request r and the rows that satisfy it *)
MatcherOf(r) ==
    CHOOSE c \in Matchers : r.params = UrlMatcher(c) \/ r.where = BodyMatcher(c)
Satisfies(c, r) ==
    IF c = "first" THEN r.id = 1 ELSE IF c = "stocked" THEN r.stock >= 1 ELSE TRUE
TenantMatch(r) ==
    {x \in rows : x.owner = r.user /\ Satisfies(MatcherOf(r), x)}

(* C26: on a table without primary key a conditional delete removes,   *)
(* and a conditional update changes, exactly the rows that match the   *)
(* tenant filter and the condition, and the answer reports an empty    *)
(* key list.                                                           *)
C26_Keyless ==
    [][(Acts(1) /\ tbl.pk = NOPK /\ req[1].op \in CondOps)
          => LET hit == TenantMatch(req[1])
             IN  /\ pc'[1] = "done" /\ resp'[1] = Resp("OK", {}, <<>>, <<>>, <<>>)
                 /\ rows' = IF req[1].op = "update"
                             THEN (rows \ hit)
                                  \cup {[x EXCEPT !.stock = req[1].set.stock] : x \in hit}
                             ELSE rows \ hit]_vars

(* a conditional update on the table without key changed the stock of  *)
(* the caller's row and not of the other row, and reported no key      *)
C26_Witness ==
    /\ tbl.pk = NOPK /\ pc[1] = "done" /\ req[1].op = "update"
    /\ req[1].where = BodyMatcher("every") /\ req[1].set.stock = MaxVal
    /\ resp[1] = Resp("OK", {}, <<>>, <<>>, <<>>)
    /\ \E x \in rows : x.owner = req[1].user /\ x.stock = MaxVal
    /\ \E x \in rows : x.owner # req[1].user /\ x.stock = 0

(* the last column, in column order, that is a column of the key *)
RECURSIVE LastKeyColumn(_, _)
LastKeyColumn(d, i) ==
    IF i = 0 THEN NOPK
    ELSE IF KeyIndex(d, d.cols[i]) > 0 THEN d.cols[i] ELSE LastKeyColumn(d, i - 1)

(* C27: when introspection observes more than one primary-key column,  *)
(* the catalog records the last key column observed, in column order,  *)
(* as the table's primary key, in the SQLite and in the MySQL dialect. *)
C27_LastKeyColumn ==
    [][(ddl' = ddl /\ Len(ddl.key) > 1)
          => tbl'.pk = LastKeyColumn(ddl, Len(ddl.cols))]_vars

(* SQLite, PRIMARY KEY (first column, second column): the catalog holds *)
(* the first column as the primary key                                  *)
C27_Witness ==
    /\ isSqlite /\ Len(ddl.key) > 1
    /\ tbl = introspect(tbl.name, ddl, isSqlite)
    /\ ddl.key[1] = ddl.cols[1] /\ ddl.key[2] = ddl.cols[2]
    /\ tbl.pk = ddl.cols[1]

(* what introspection records: with the MySQL dialect the last key     *)
(* column in column order, with the SQLite dialect the first column of *)
(* the key, in key order; no key, no primary key                       *)
C27_ByDialect ==
    [][ddl' = ddl
          => tbl'.pk = IF Len(ddl.key) = 0 THEN NOPK
                       ELSE IF isSqlite THEN ddl.key[1]
                       ELSE LastKeyColumn(ddl, Len(ddl.cols))]_vars

(* an array whose first element is a string; every other array *)
IsTuple(w) == w.j = "arr" /\ Len(w.a) > 0 /\ w.a[1].j = "str"
IsList(w) == w.j = "arr" /\ ~IsTuple(w)

(* the conditions bodyBuildWhere compiles for input w on a table       *)
(* without owner column, first placeholder n: the text after WHERE     *)
Compiled(w, n) ==
    LET o == bodyBuildWhere([tbl EXCEPT !.hasOwner = FALSE], w, 0, n)
    IN  IF o.err # "" THEN Throw(o.err)
        ELSE Cond(IF Len(o.where) = 0 THEN <<>> ELSE Tail(o.where), o.values, o.n)

(* an entry of a group's cond: a list that has not exactly one item is *)
(* wrapped in parentheses                                              *)
Entry(e, n, inGroup) ==
    LET c == Compiled(e, n)
    IN  IF c.err = "" /\ inGroup /\ IsList(e) /\ Len(e.a) # 1
        THEN Cond(<<Kw("(")>> \o c.sql \o <<Kw(")")>>, c.values, c.n)
        ELSE c

(* the inputs es compiled one by one, placeholders running on, joined by sep *)
RECURSIVE Joined(_, _, _, _)
Joined(es, n, sep, inGroup) ==
    LET after(h, r) ==
            IF r.err # "" THEN r
            ELSE Cond(h.sql \o (IF Len(es) > 1 THEN <<Kw(sep)>> ELSE <<>>) \o r.sql,
                      h.values \o r.values, r.n)
        from(h) == IF h.err # "" THEN h ELSE after(h, Joined(Tail(es), h.n, sep, inGroup))
    IN  IF Len(es) = 0 THEN Cond(<<>>, <<>>, n)
        ELSE from(Entry(es[1], n, inGroup))

(* the rule for input w *)
ParsedByRule(w) ==
    IF IsTuple(w)
    THEN Compiled(w, 1) = bodyFieldCond(w.a[1].s, IF Len(w.a) = 3 THEN w.a[2].s ELSE "eq",
                                        w.a[Len(w.a)], [tbl EXCEPT !.hasOwner = FALSE], 1)
    ELSE IF IsList(w) THEN Compiled(w, 1) = Joined(w.a, 1, "AND", FALSE)
    ELSE IF w.j = "grp"
    THEN LET c == Joined(w.a, 1, IF w.s = "or" THEN "OR" ELSE "AND", TRUE)
         IN  Compiled(w, 1) = IF c.err # "" THEN c
                              ELSE Cond(<<Kw("(")>> \o c.sql \o <<Kw(")")>>, c.values, c.n)
    ELSE TRUE

(* C28: in the structured grammar a where array whose first element is *)
(* a string is one condition tuple, [field, value] or [field, op,      *)
(* value], and compiles to exactly one comparison; every other array   *)
(* is a list of items that are ANDed; the same rule applies to each    *)
(* entry of a logic group's cond.                                      *)
C28_TupleOrList ==
    \A s \in Slots :
        (pc[s] = "pending" /\ req[s].op \in {"query", "deleteBody", "update"})
        => /\ ParsedByRule(req[s].where)
           /\ req[s].where.j = "grp"
                 => \A i \in 1 .. Len(req[s].where.a) : ParsedByRule(req[s].where.a[i])

(* the structured list with where ["id", "1"], two strings, was        *)
(* compiled to the one comparison "id" = $2 and returned the caller's  *)
(* row of key 1                                                        *)
C28_Witness ==
    /\ pc[1] = "done" /\ req[1].op = "query" /\ req[1].where = T2("id", JStr("1"))
    /\ Compiled(req[1].where, 2) = Cond(<<q("id"), Kw("="), Ph(2)>>, <<1>>, 3)
    /\ resp[1].code = "OK"
    /\ \E r \in rows : r.id = 1 /\ r.owner = req[1].user
                        /\ resp[1].rows = {[r EXCEPT !.owner = ABSENT]}

SaveOps == {"insert", "upsert", "patch"}

Statement(sql, values) == [sql |-> sql, values |-> values]
ListStatements(l) ==
    IF l.err # "" THEN {}
    ELSE {Statement(l.sql, l.values), Statement(l.countSql, l.countValues)}
UpdateStatements(u) ==
    IF u.err # "" THEN {}
    ELSE {Statement(u.updateSql, u.updateValues), Statement(u.selectSql, u.selectValues)}
DeleteStatements(d) == IF d.err # "" THEN {} ELSE {Statement(d.sql, d.values)}
Statements(r) ==
    IF ~zValidator(r) THEN {}
    ELSE IF r.op = "list" THEN ListStatements(buildListSQL(tbl, r.params, r.user))
    ELSE IF r.op = "query"
    THEN ListStatements(buildBodyListSQL(tbl,
             BodyQuery(r.opts.select, r.where, r.opts.order, r.opts.group,
                       r.opts.pageNo, r.opts.pageSize), r.user))
    ELSE IF r.op = "delete" THEN DeleteStatements(buildDeleteSQL(tbl, r.params, r.user))
    ELSE IF r.op = "deleteBody"
    THEN DeleteStatements(buildBodyDeleteSQL(tbl, r.where, r.user))
    ELSE IF r.op = "update"
    THEN UpdateStatements(buildBodyUpdateSQL(tbl, r.set, r.where, r.user))
    ELSE {}

(* the placeholders of a statement in order of appearance *)
IsPh(t) == t.k = "ph"
PhsOf(sql) == SelectSeq(sql, IsPh)
Numbered(st) ==
    /\ Len(PhsOf(st.sql)) = Len(st.values)
    /\ \A k \in 1 .. Len(st.values) : PhsOf(st.sql)[k].n = k

(* UPDATE t SET c1 = $1, ..., cm = $m WHERE owner = $m+1 ...: the SET   *)
(* placeholders carry the set values, the next one the caller          *)
SetFirst(r) ==
    LET u == buildBodyUpdateSQL(tbl, r.set, r.where, r.user)
        es == Keep(Entries(r.set), tbl, TRUE)
        at == CHOOSE i \in 1 .. Len(u.updateSql) : u.updateSql[i] = Kw("WHERE")
    IN  (zValidator(r) /\ u.err = "")
        => /\ PhsOf(SubSeq(u.updateSql, 1, at)) = [k \in 1 .. Len(es) |-> Ph(k)]
           /\ \A k \in 1 .. Len(es) :
                  /\ u.updateSql[4 * k] = q(es[k].k)
                  /\ u.updateValues[k] = es[k].v
           /\ tbl.hasOwner => /\ u.updateSql[at + 3] = Ph(Len(es) + 1)
                               /\ u.updateValues[Len(es) + 1] = r.user

(* C30: in every statement compiled by buildListSQL, buildDeleteSQL,   *)
(* buildBodyListSQL, buildBodyDeleteSQL and buildBodyUpdateSQL the     *)
(* placeholders are numbered 1..n in order of appearance and the       *)
(* values list has n entries, the k-th for placeholder $k; in the      *)
(* update statement the SET placeholders precede those of the WHERE.   *)
C30_Placeholders ==
    \A s \in Slots :
        pc[s] = "pending"
        => /\ \A st \in Statements(req[s]) : Numbered(st)
           /\ req[s].op = "update" => SetFirst(req[s])

(* an update whose condition is an OR group of an implicit AND, a     *)
(* BETWEEN and a null test was compiled with six placeholders: $1 for  *)
(* the SET value, $2 for the caller, $3..$6 for the conditions; it was *)
(* answered OK                                                         *)
C30_Witness ==
    /\ pc[1] = "done" /\ req[1].op = "update" /\ resp[1].code = "OK"
    /\ SetFirst(req[1])
    /\ \E st \in Statements(req[1]) :
          /\ Len(st.values) = 6 /\ st.values[2] = req[1].user
          /\ PhsOf(st.sql) = [k \in 1 .. 6 |-> Ph(k)]
          /\ \E i \in 1 .. Len(st.sql) : st.sql[i] = Kw("OR")
====
